---- MODULE Spec2Model ----
(***************************************************************************)
(* The request-sending pipeline of gildas/go-request (request.go):         *)
(* normalizeOptions, buildRequestContent, buildRequest and the retry loop  *)
(* of Send, with the transport, the streams and the random generators as   *)
(* the environment.                                                        *)
(***************************************************************************)
EXTENDS Integers, Sequences, FiniteSets, TLC

VARIABLES
    given,       \* the Options value as the caller passed it to Send
    server,      \* the server of the call: its latency, its Retry-After header
                 \* and the type and body of its responses
    results,     \* the results argument of Send: what it is, the bytes written
                 \* to it and whether a body was decoded into it
    options,     \* the Options value, as Send and its helpers mutate it
    ctx,         \* the caller's context: "live", "canceled" or "expired"
    clock,       \* time.Since(start) at the top of the loop
    streamPos,   \* read offset of the caller's payload and attachment streams
    pc,          \* "idle", "loop" (top of the for loop), "asleep" (in a
                 \* time.Sleep longer than MaxSleep), "done", "panic"
    attempt,     \* the loop variable of Send
    req,         \* the *http.Request of the next attempt (may be nil)
    sent,        \* the requests handed to httpclient.Do, in order
    waits,       \* the time.Sleep calls made, in order
    outcomes,    \* the class of the outcome of each httpclient.Do, in order
    last,        \* the outcome of the latest httpclient.Do
    openBodies,  \* response bodies received and not yet closed
    closes,      \* the calls of Close on the ProgressWriter
    result,      \* what Send returned: [content, err]
    args,        \* the arguments of a call of ContentWithData or
                 \* ContentFromReader: [data, options, reader]
    built,       \* the Content that call returned
    returned     \* what a later call on that Content returned

vars == <<given, server, results, options, ctx, clock, streamPos, pc, attempt, req,
          sent, waits, outcomes, last, openBodies, closes, result, args, built, returned>>

----------------------------------------------------------------------------
(* Bounds of the model *)

\* the largest Attempts value a caller passes
MaxAttempts == 3

\* the longest time.Sleep that is followed to its end, in seconds
MaxSleep == 600

\* the values of a key of the query string up to which calls are repeated
MaxCopies == 3

(* Program constants *)

\* time.Second: the durations are counted in half seconds
Second == 2

Minute == 60 * Second

DefaultAttempts == 5

DefaultTimeout == 2 * Second

DefaultInterAttemptDelay == 3 * Second

DefaultInterAttemptBackoffInterval == 5 * Minute

DefaultRetryableStatusCodes == {429, 502, 503, 504}

DefaultRequestBodyLogSize == 2048

DefaultResponseBodyLogSize == 2048

----------------------------------------------------------------------------
(* Values *)

Digits == <<"0", "1", "2", "3", "4", "5", "6", "7", "8", "9">>

\* strconv.FormatUint(n, 10)
RECURSIVE FormatUint(_)
FormatUint(n) ==
    IF n < 10 THEN Digits[n + 1]
    ELSE FormatUint(n \div 10) \o Digits[(n % 10) + 1]

\* error values
ErrNil == [kind |-> "nil", what |-> "", value |-> "", code |-> 0]

ArgumentMissing(what) ==
    [kind |-> "ArgumentMissing", what |-> what, value |-> "", code |-> 0]

ArgumentInvalid(what, value) ==
    [kind |-> "ArgumentInvalid", what |-> what, value |-> value, code |-> 0]

\* errors.FromHTTPStatusCode(code)
FromHTTPStatusCode(code) ==
    [kind |-> "HTTPStatus", what |-> "", value |-> "", code |-> code]

\* errors.Wrapf(errors.HTTPStatusRequestTimeout, "Giving up after %d attempts (%s)", ...)
GivingUp(n) ==
    [kind |-> "HTTPStatusRequestTimeout",
     what |-> "Giving up after " \o FormatUint(n) \o " attempts",
     value |-> "", code |-> 408]

\* the error of httpclient.Do, returned as it is or under errors.WithStack
TransportFailure(name) ==
    [kind |-> "Transport", what |-> name, value |-> "", code |-> 0]

\* the error of reading a body (io.ReadAll / io.Copy)
ReadFailure == [kind |-> "IO", what |-> "read", value |-> "", code |-> 0]

PlainError(message) ==
    [kind |-> "Error", what |-> message, value |-> "", code |-> 0]

\* errors.JSONMarshalError.Wrap(err)
JSONMarshalError == [kind |-> "JSONMarshalError", what |-> "", value |-> "", code |-> 0]

\* the run-time panic of a failed type assertion x.(T), as it leaves
\* buildRequestContent
InterfaceConversionPanic ==
    [kind |-> "panic", what |-> "interface conversion", value |-> "", code |-> 0]

NoFields == [k \in {} |-> ""]

\* a url.Values without keys
NoValues == [k \in {} |-> <<>>]

\* a Content; isNil marks the nil *Content, Headers is the empty http.Header
\* unless one is given
Content(type, length, data) ==
    [isNil |-> FALSE, Type |-> type, Length |-> length, Data |-> data,
     Headers |-> NoFields, Cookies |-> <<>>]

NilContent ==
    [isNil |-> TRUE, Type |-> "", Length |-> 0, Data |-> <<>>,
     Headers |-> NoFields, Cookies |-> <<>>]

\* ContentWithData(data, type, length): Length defaults to len(data)
ContentWithData(data, type, length) ==
    Content(type, IF length = 0 THEN Len(data) ELSE length, data)

\* the values a caller passes as Payload or Attachment: kind is the
\* reflect.Kind of the value ("PtrStruct" for a pointer to a struct), rtype its
\* dynamic type (%T), reader and seeker whether it is an io.Reader and an
\* io.Seeker, stream the bytes it reads, ctype and data the Type and Data of a
\* Content or the bytes of a []byte, json what json.Marshal makes of it,
\* marshals whether json.Marshal succeeds, fields the entries of a map
NilValue ==
    [kind |-> "nil", rtype |-> "", reader |-> FALSE, seeker |-> FALSE,
     stream |-> "", ctype |-> "", data |-> <<>>, json |-> <<>>, marshals |-> TRUE,
     fields |-> NoFields]

ContentOf(type) ==
    [NilValue EXCEPT !.kind = "Struct", !.rtype = "request.Content", !.ctype = type,
                     !.data = <<"c1", "c2">>, !.json = <<"{Type,Data:c1c2}">>]

ContentPointerOf(type) ==
    [NilValue EXCEPT !.kind = "PtrStruct", !.rtype = "*request.Content", !.ctype = type,
                     !.data = <<"c1", "c2">>, !.json = <<"{Type,Data:c1c2}">>]

ContentValue == ContentOf("")

ContentPointer == ContentPointerOf("")

\* a stream that is an io.Reader and an io.Seeker (*bytes.Reader, *os.File):
\* a pointer to a struct
SeekerStream(id) ==
    [NilValue EXCEPT !.kind = "PtrStruct", !.rtype = "*bytes.Reader", !.reader = TRUE,
                     !.seeker = TRUE, !.stream = id, !.json = <<"{}">>]

\* a stream that is only an io.Reader (type failingReader int)
ReaderStream(id) ==
    [NilValue EXCEPT !.kind = "Int", !.rtype = "request_test.failingReader",
                     !.reader = TRUE, !.stream = id, !.json = <<"0">>]

StructValue == [NilValue EXCEPT !.kind = "Struct", !.rtype = "struct", !.json = <<"{id:1}">>]

StructPointer ==
    [NilValue EXCEPT !.kind = "PtrStruct", !.rtype = "*struct", !.json = <<"{id:1}">>]

SliceValue == [NilValue EXCEPT !.kind = "Slice", !.rtype = "[]string", !.json = <<"[1,2]">>]

\* a []byte: json.Marshal encodes it in base64
ByteSlice ==
    [NilValue EXCEPT !.kind = "Slice", !.rtype = "[]uint8", !.data = <<"b1", "b2">>,
                     !.json = <<"\"YjFiMg==\"">>]

\* an array of bytes, which is no []byte
ByteArray ==
    [NilValue EXCEPT !.kind = "Array", !.rtype = "[2]uint8", !.data = <<"b1", "b2">>,
                     !.json = <<"[1,2]">>]

\* a value json.Marshal fails on (a channel or a func among its fields or
\* items, a MarshalJSON that returns an error)
Unmarshalable(v) == [v EXCEPT !.marshals = FALSE, !.json = <<>>]

MapOf(fields) ==
    [NilValue EXCEPT !.kind = "Map", !.rtype = "map[string]string", !.fields = fields,
                     !.json = <<"{file:test,name:test}">>]

MapValue == MapOf([k \in {">file", "name"} |-> "test"])

IntValue == [NilValue EXCEPT !.kind = "Int", !.rtype = "int", !.json = <<"1234">>]

StringValue == [NilValue EXCEPT !.kind = "String", !.rtype = "string", !.json = <<"text">>]

\* the bytes behind the caller's streams
StreamData == [p |-> <<"p1", "p2">>, a |-> <<"a1", "a2">>, e |-> <<>>]

\* the errors httpclient.Do returns, with what the tests of Send see of them:
\* errors.As(*net.OpError) with errors.Is(ECONNRESET), errors.As(*url.Error),
\* Timeout(), Temporary(), Unwrap() == io.EOF, errors.Is(DeadlineExceeded)
NetError(name, reset, urlErr, timeout, temporary, eof, deadline) ==
    [name |-> name, reset |-> reset, urlError |-> urlErr, timeout |-> timeout,
     temporary |-> temporary, eof |-> eof, deadline |-> deadline]

NetErrors ==
    { NetError("timeout", FALSE, TRUE, TRUE, FALSE, FALSE, FALSE),
      NetError("temporary", FALSE, TRUE, FALSE, TRUE, FALSE, FALSE),
      NetError("EOF", FALSE, TRUE, FALSE, FALSE, TRUE, FALSE),
      NetError("deadline exceeded", FALSE, TRUE, TRUE, FALSE, FALSE, TRUE),
      NetError("connection reset", TRUE, TRUE, FALSE, FALSE, FALSE, FALSE),
      NetError("connection refused", FALSE, TRUE, FALSE, FALSE, FALSE, FALSE),
      NetError("not a url.Error", FALSE, FALSE, FALSE, FALSE, FALSE, FALSE) }

\* the error of httpclient.Do once the caller's context is canceled
\* (context.Canceled has no Timeout() and no Temporary())
ContextCanceled == NetError("context canceled", FALSE, TRUE, FALSE, FALSE, FALSE, FALSE)

\* the error of httpclient.Do once the deadline of the caller's context has
\* passed (context.DeadlineExceeded: Timeout() and Temporary() are true)
ContextDeadlineExceeded ==
    NetError("context deadline exceeded", FALSE, TRUE, TRUE, TRUE, FALSE, TRUE)

\* the status codes the server answers with
Statuses == {200, 202, 404, 503}

\* the boundaries multipart.NewWriter draws
Boundaries == {"b1", "b2"}

\* the identifiers uuid.NewRandom draws
UUIDs == {"uuid-1", "uuid-2"}

NilRequest ==
    [isNil |-> TRUE, Method |-> "", Body |-> <<>>,
     Header |-> NoFields]

----------------------------------------------------------------------------
(* normalizeOptions *)

\* a faulty variant of seekerCheck: the check runs on the Attempts the caller passed,
\* before the default is applied
seekerCheckBeforeDefault(o) ==
    IF given.Attempts > 1
    THEN IF o.Payload.reader /\ ~o.Payload.seeker
         THEN ArgumentInvalid("Payload", o.Payload.rtype)
         ELSE IF o.Attachment.kind # "nil" /\ ~o.Attachment.seeker
              THEN ArgumentInvalid("Attachment", o.Attachment.rtype)
              ELSE ErrNil
    ELSE ErrNil

\* the check of normalizeOptions that a stream can be read again on a retry
seekerCheck(o) ==
    IF o.Attempts > 1
    THEN IF o.Payload.reader /\ ~o.Payload.seeker
         THEN ArgumentInvalid("Payload", o.Payload.rtype)
         ELSE IF o.Attachment.kind # "nil" /\ ~o.Attachment.seeker
              THEN ArgumentInvalid("Attachment", o.Attachment.rtype)
              ELSE ErrNil
    ELSE ErrNil

\* a faulty variant of defaultTimeout: a Timeout below one second counts as unset
defaultTimeoutBelowSecond(t) == IF t < Second THEN DefaultTimeout ELSE t

\* if options.Timeout == 0 { options.Timeout = DefaultTimeout }
defaultTimeout(t) == IF t = 0 THEN DefaultTimeout ELSE t

\* a faulty variant of defaultAttempts: the Attempts of the caller is
\* overwritten whatever it is
defaultAttemptsAlways(n) == DefaultAttempts

\* if options.Attempts < 1 { options.Attempts = DefaultAttempts }
defaultAttempts(n) == IF n < 1 THEN DefaultAttempts ELSE n

\* if options.InterAttemptDelay < 1*time.Second { ... = DefaultInterAttemptDelay }
defaultInterAttemptDelay(d) == IF d < Second THEN DefaultInterAttemptDelay ELSE d

\* if options.InterAttemptBackoffInterval < 1*time.Second { ... }
defaultInterAttemptBackoffInterval(b) ==
    IF b < Second THEN DefaultInterAttemptBackoffInterval ELSE b

\* if len(options.RetryableStatusCodes) == 0 { ... }
defaultRetryableStatusCodes(codes) ==
    IF codes = {} THEN DefaultRetryableStatusCodes ELSE codes

\* if size == 0 { size = default } else if size < 0 { size = 0 }, for
\* RequestBodyLogSize and ResponseBodyLogSize
defaultBodyLogSize(size, default) ==
    IF size = 0 THEN default ELSE IF size < 0 THEN 0 ELSE size

\* query := options.URL.Query(); query.Add(key, value) for each of
\* options.Parameters; options.URL.RawQuery = query.Encode(): a query is a
\* url.Values, the list of the values of each key
withParameters(query, parameters) ==
    [k \in DOMAIN query \cup DOMAIN parameters |->
        (IF k \in DOMAIN query THEN query[k] ELSE <<>>)
        \o (IF k \in DOMAIN parameters THEN <<parameters[k]>> ELSE <<>>)]

\* a faulty variant of missingArgument: an Options value without URL is let
\* through
missingArgumentButURL(o) ==
    IF o.isNil THEN ArgumentMissing("options") ELSE ErrNil

\* the arguments normalizeOptions requires: options, then options.URL
missingArgument(o) ==
    IF o.isNil THEN ArgumentMissing("options")
    ELSE IF o.URL = "" THEN ArgumentMissing("URL")
    ELSE ErrNil

\* the Accept of a call that sets none: application/json when results is
\* given and is no io.Writer
defaultAccept(accept, r) ==
    IF accept # "" THEN accept
    ELSE IF r.kind \notin {"nil", "Writer"} THEN "application/json"
    ELSE "*"

\* normalizeOptions(options, results) with uuid the value uuid.NewRandom draws:
\* the defaults are written into the caller's Options before the stream check
normalizeOptions(o, r, uuid) ==
    IF missingArgument(o) # ErrNil
    THEN [err |-> missingArgument(o), options |-> o]
    ELSE LET n == [o EXCEPT
                     !.Context = IF @ = "nil" THEN "Background" ELSE @,
                     !.RequestBodyLogSize =
                         defaultBodyLogSize(@, DefaultRequestBodyLogSize),
                     !.ResponseBodyLogSize =
                         defaultBodyLogSize(@, DefaultResponseBodyLogSize),
                     !.RequestID = IF @ = "" THEN uuid ELSE @,
                     !.Accept = defaultAccept(@, r),
                     !.Timeout = defaultTimeout(@),
                     !.Attempts = defaultAttempts(@),
                     !.InterAttemptDelay = defaultInterAttemptDelay(@),
                     !.InterAttemptBackoffInterval =
                         defaultInterAttemptBackoffInterval(@),
                     !.RetryableStatusCodes = defaultRetryableStatusCodes(@),
                     !.RawQuery = withParameters(@, o.Parameters)]
         IN  [err |-> seekerCheck(n), options |-> n]

----------------------------------------------------------------------------
(* buildRequestContent *)

\* what io.ReadAll / io.Copy reads from a stream at offset pos
Unread(stream, pos) ==
    SubSeq(StreamData[stream], pos[stream] + 1, Len(StreamData[stream]))

AtEnd(stream, pos) == [pos EXCEPT ![stream] = Len(StreamData[stream])]

Rewound(stream, pos) == [pos EXCEPT ![stream] = 0]

Built(content, err, o, pos) ==
    [content |-> content, err |-> err, options |-> o, pos |-> pos]

\* the Content and *Content branches: the Type of the payload is overwritten
\* by PayloadType, or defaults to application/octet-stream
contentPayload(o, pos) ==
    LET type == IF o.PayloadType # "" THEN o.PayloadType
                ELSE IF o.Payload.ctype = "" THEN "application/octet-stream"
                ELSE o.Payload.ctype
        \* a *Content is the caller's object: the assignment to Type is seen
        o1 == IF o.Payload.rtype = "*request.Content"
              THEN [o EXCEPT !.Payload.ctype = type] ELSE o
    IN  Built(Content(type, Len(o.Payload.data), o.Payload.data), ErrNil, o1, pos)

\* the io.Reader branch: ContentFromReader reads the stream from where it
\* stands, and its error is dropped (content stays nil)
readerPayload(o, pos, io) ==
    IF io = "fail"
    THEN Built(NilContent, ArgumentInvalid("payload", ""), o, pos)
    ELSE Built(ContentWithData(Unread(o.Payload.stream, pos), o.PayloadType, 0),
               ErrNil, o, AtEnd(o.Payload.stream, pos))

\* a faulty variant of marshal: the error of json.Marshal is dropped
marshalWithoutError(v) == [data |-> v.json, err |-> ErrNil]

\* marshal(payload): json.Marshal, its error wrapped in JSONMarshalError
marshal(v) ==
    IF v.marshals THEN [data |-> v.json, err |-> ErrNil]
    ELSE [data |-> <<>>, err |-> JSONMarshalError]

\* if payload, err = marshal(options.Payload); err == nil { content =
\* ContentWithData(payload, options.PayloadType) }, then return nil, err
jsonPayload(o, pos) ==
    IF marshal(o.Payload).err # ErrNil
    THEN Built(NilContent, marshal(o.Payload).err, o, pos)
    ELSE Built(ContentWithData(marshal(o.Payload).data, o.PayloadType, 0), ErrNil, o, pos)

\* the struct branch: JSON, under the PayloadType of the caller if any
structPayload(o, pos) ==
    jsonPayload(IF o.PayloadType = ""
                THEN [o EXCEPT !.PayloadType = "application/json"] ELSE o, pos)

\* the array/slice branch: under application/octet-stream the payload is
\* asserted to be a []byte and sent as it is; else it is sent as JSON
slicePayload(o, pos) ==
    IF o.PayloadType = "application/octet-stream"
    THEN IF o.Payload.rtype = "[]uint8"
         THEN Built(ContentWithData(o.Payload.data, o.PayloadType, 0), ErrNil, o, pos)
         ELSE Built(NilContent, InterfaceConversionPanic, o, pos)
    ELSE jsonPayload([o EXCEPT !.PayloadType = "application/json"], pos)

\* the map branch without attachment: a url-encoded form
formPayload(o, pos) ==
    LET o1 == IF o.PayloadType = ""
              THEN [o EXCEPT !.PayloadType = "application/x-www-form-urlencoded"]
              ELSE o
    IN  Built(ContentWithData(<<"%3Efile=test&name=test">>, o1.PayloadType, 0),
              ErrNil, o1, pos)

\* strings.HasPrefix(key, ">") and strings.TrimPrefix(key, ">"), on the keys
\* of the maps that are explored
hasAttachmentPrefix(key) == key \in {">", ">file"}

trimAttachmentPrefix(key) ==
    IF key = ">file" THEN "file" ELSE IF key = ">" THEN "" ELSE key

\* a faulty variant of entryError: the file name is checked before the key
entryErrorValueFirst(key, value) ==
    IF value = ""
    THEN PlainError("Empty value for multipart form field " \o key)
    ELSE IF key = ""
    THEN PlainError("Empty key for multipart form field with attachment")
    ELSE ErrNil

\* the checks of a ">" entry made before its part is created; key is the key
\* without its prefix, value the file name
entryError(key, value) ==
    IF key = ""
    THEN PlainError("Empty key for multipart form field with attachment")
    ELSE IF value = ""
    THEN PlainError("Empty value for multipart form field " \o key)
    ELSE ErrNil

\* the part of a ">" entry: the attachment, rewound first when Attempts > 1,
\* is copied into it
attachmentPart(o, pos, io, boundary, plain, key, value) ==
    LET stream == o.Attachment.stream
        seeks  == o.Attempts > 1
        from   == IF seeks THEN Rewound(stream, pos) ELSE pos
        copied == Unread(stream, from)
    IN  IF seeks /\ io = "fail"
        THEN Built(NilContent,
                   PlainError("Failed to seek to beginning of attachment for field " \o key),
                   o, pos)
        ELSE IF io = "fail"
        THEN Built(NilContent,
                   PlainError("Failed to write attachment to multipart form field " \o key),
                   o, pos)
        ELSE IF Len(copied) = 0
        THEN Built(NilContent,
                   PlainError("Missing/Empty Attachment for multipart form field " \o key),
                   o, AtEnd(stream, from))
        ELSE Built(ContentWithData(<<"--" \o boundary>> \o plain
                                       \o <<key \o "=" \o value>> \o copied
                                       \o <<"--" \o boundary \o "--">>,
                                   "multipart/form-data; boundary=" \o boundary, 0),
                   ErrNil, o, AtEnd(stream, from))

\* the map branch with an attachment: a multipart form with a field for each
\* plain entry and a part for the ">" entry (the maps explored have at most
\* one of each, so the order of the range over the map does not show)
multipartPayload(o, pos, io, boundary) ==
    LET fields  == o.Payload.fields
        plain   == IF "name" \in DOMAIN fields
                   THEN <<"name=" \o fields["name"]>> ELSE <<>>
        entries == {k \in DOMAIN fields : hasAttachmentPrefix(k)}
    IN  IF entries = {}
        THEN Built(ContentWithData(<<"--" \o boundary>> \o plain
                                       \o <<"--" \o boundary \o "--">>,
                                   "multipart/form-data; boundary=" \o boundary, 0),
                   ErrNil, o, pos)
        ELSE LET entry == CHOOSE k \in entries : TRUE
                 key   == trimAttachmentPrefix(entry)
                 value == fields[entry]
             IN  IF entryError(key, value) # ErrNil
                 THEN Built(NilContent, entryError(key, value), o, pos)
                 ELSE attachmentPart(o, pos, io, boundary, plain, key, value)

\* a faulty variant of payloadRule: the reflect.Kind of the payload is looked
\* at before the io.Reader assertion
payloadRuleKindFirst(v) ==
    IF v.rtype = "request.Content" THEN "Content"
    ELSE IF v.rtype = "*request.Content" THEN "*Content"
    ELSE IF v.kind \in {"Struct", "PtrStruct"} THEN "struct"
    ELSE IF v.reader THEN "io.Reader"
    ELSE IF v.kind \in {"Array", "Slice"} THEN "slice"
    ELSE IF v.kind = "Map" THEN "map"
    ELSE "none"

\* a faulty variant of payloadRule: a payload of no supported shape is
\* marshaled like a struct
payloadRuleMarshalsRest(v) ==
    IF v.rtype = "request.Content" THEN "Content"
    ELSE IF v.rtype = "*request.Content" THEN "*Content"
    ELSE IF v.reader THEN "io.Reader"
    ELSE IF v.kind \in {"Array", "Slice"} THEN "slice"
    ELSE IF v.kind = "Map" THEN "map"
    ELSE "struct"

\* the branch of buildRequestContent that takes a non-nil payload: the type
\* assertions Content, *Content and io.Reader in that order, then the
\* reflect.Kind of the payload
payloadRule(v) ==
    IF v.rtype = "request.Content" THEN "Content"
    ELSE IF v.rtype = "*request.Content" THEN "*Content"
    ELSE IF v.reader THEN "io.Reader"
    ELSE IF v.kind \in {"Struct", "PtrStruct"} THEN "struct"
    ELSE IF v.kind \in {"Array", "Slice"} THEN "slice"
    ELSE IF v.kind = "Map" THEN "map"
    ELSE "none"

\* buildRequestContent(log, options): io is "ok" or "fail" (the first stream
\* operation of this build fails), boundary the multipart boundary drawn
buildRequestContent(o, pos, io, boundary) ==
    IF o.Payload.kind = "nil" /\ o.Attachment.kind = "nil"
    THEN Built(Content("", 0, <<>>), ErrNil, o, pos)
    ELSE
    LET \* a lone attachment becomes the payload
        o1 == IF o.Payload.kind = "nil"
              THEN [o EXCEPT !.Payload = o.Attachment,
                             !.PayloadType = IF o.AttachmentType # ""
                                             THEN o.AttachmentType ELSE @]
              ELSE o
        rule == payloadRule(o1.Payload)
    IN  CASE rule \in {"Content", "*Content"} -> contentPayload(o1, pos)
          [] rule = "io.Reader" -> readerPayload(o1, pos, io)
          [] rule = "struct" -> structPayload(o1, pos)
          [] rule = "slice" -> slicePayload(o1, pos)
          [] rule = "map" /\ o1.PayloadType = "application/json" -> jsonPayload(o1, pos)
          [] rule = "map" /\ o1.Attachment.kind = "nil" -> formPayload(o1, pos)
          [] rule = "map" -> multipartPayload(o1, pos, io, boundary)
          [] OTHER -> Built(NilContent, ArgumentInvalid("payload", ""), o1, pos)

----------------------------------------------------------------------------
(* buildRequest *)

\* a faulty variant of requestID: an identifier drawn at each build of the request
requestIDPerBuild(o) == IF pc = "idle" THEN o.RequestID ELSE "uuid-of-rebuild"

\* the X-Request-Id header buildRequest stamps on the request
requestID(o) == o.RequestID

\* req.Header.Set(key, value) for each entry of options.Headers
withHeaders(header, headers) ==
    [k \in DOMAIN header \cup DOMAIN headers |->
        IF k \in DOMAIN headers THEN headers[k] ELSE header[k]]

\* a faulty variant of withMethod: the method of a call that sets none follows
\* the payload alone
withMethodOfPayload(o, c) ==
    IF o.Method = ""
    THEN [o EXCEPT !.Method = IF o.Payload.kind # "nil" THEN "POST" ELSE "GET"]
    ELSE o

\* the options after buildRequest has computed the method of a call that
\* sets none: POST for a content with Length > 0, else GET
withMethod(o, c) ==
    IF o.Method = ""
    THEN [o EXCEPT !.Method = IF c.Length > 0 THEN "POST" ELSE "GET"]
    ELSE o

\* buildRequest(log, options)
buildRequest(o, pos, io, boundary) ==
    LET b  == buildRequestContent(o, pos, io, boundary)
        c  == b.content
        o1 == withMethod(b.options, c)
        base == [k \in {"X-Request-Id"} |-> requestID(o1)]
        typed == IF c.Type # ""
                 THEN withHeaders(base, [k \in {"Content-Type"} |-> c.Type])
                 ELSE base
        sized == IF c.Length > 0
                 THEN withHeaders(typed, [k \in {"Content-Length"} |-> FormatUint(c.Length)])
                 ELSE typed
    IN  IF b.err # ErrNil
        THEN [req |-> NilRequest, err |-> b.err, options |-> b.options, pos |-> b.pos]
        ELSE [req |-> [isNil |-> FALSE, Method |-> o1.Method, Body |-> c.Data,
                       Header |-> withHeaders(sized, o1.Headers)],
              err |-> ErrNil, options |-> o1, pos |-> b.pos]

----------------------------------------------------------------------------
(* Send *)

\* a faulty variant of stampAttempt: an X-Attempt set by options.Headers is kept
stampAttemptUnlessSet(r, n) ==
    [r EXCEPT !.Header = withHeaders([k \in {"X-Attempt"} |-> FormatUint(n + 1)], @)]

\* req.Header.Set("X-Attempt", strconv.FormatUint(uint64(attempt+1), 10))
stampAttempt(r, n) ==
    [r EXCEPT !.Header = withHeaders(@, [k \in {"X-Attempt"} |-> FormatUint(n + 1)])]

\* a faulty variant of isRetryableError: a connection reset is not tried again
isRetryableErrorButReset(e) ==
    e.urlError /\ ~e.reset /\ (e.timeout \/ e.temporary \/ e.eof \/ e.deadline)

\* a faulty variant of isRetryableError: every url.Error is tried again
isRetryableErrorAnyURLError(e) == e.reset \/ e.urlError

\* the transport errors after which Send tries again: a connection reset, or
\* a url.Error that is a timeout, temporary, an EOF or a deadline exceeded
isRetryableError(e) ==
    \/ e.reset
    \/ e.urlError /\ (e.timeout \/ e.temporary \/ e.eof \/ e.deadline)

\* a faulty variant of isErrorStatus: a status of RetryableStatusCodes is an error too
isErrorStatusOrListed(status) ==
    status >= 400 \/ status \in options.RetryableStatusCodes

\* res.StatusCode >= 400
isErrorStatus(status) == status >= 400

\* core.Contains(options.RetryableStatusCodes, res.StatusCode)
isRetryableStatus(o, status) == status \in o.RetryableStatusCodes

\* a faulty variant of attemptsRemain: the last attempt is never made
attemptsRemainButOne(o, n) == n + 2 < o.Attempts

\* attempt+1 < options.Attempts
attemptsRemain(o, n) == n + 1 < o.Attempts

\* a faulty variant of exhausted: the loop ends with the error of the last attempt
exhaustedWithLastError(o) == TransportFailure(last'.error)

\* the error Send returns when the loop ends by break
exhausted(o) == GivingUp(o.Attempts)

\* res.Body: the chunks the server sends for a status
responseBody(status) == <<"body of " \o FormatUint(status)>> \o server.rest

\* res.Header and res.Cookies()
responseHeader ==
    IF server.contentType = "" THEN [k \in {"Server"} |-> "httptest"]
    ELSE [k \in {"Server", "Content-Type"} |->
             IF k = "Server" THEN "httptest" ELSE server.contentType]

responseCookies == <<"session=1">>

\* ContentWithData(data, type, length, res.Header, res.Cookies())
responseContentWith(data, type, length) ==
    [ContentWithData(data, type, length) EXCEPT
        !.Headers = responseHeader, !.Cookies = responseCookies]

\* the body of a response with a status >= 400, buffered by ContentFromReader
\* under the Content-Type and Content-Length of its header
responseContent(status) ==
    responseContentWith(responseBody(status), server.contentType,
                        Len(responseBody(status)))

\* mime.TypeByExtension(filepath.Ext(options.URL.Path)), on the URLs explored
typeByExtension(url) == IF url = "http://host/image.png" THEN "image/png" ELSE ""

\* a faulty variant of responseContentType: an Accept of "*" is taken as a type
responseContentTypeOfAnyAccept(o, received) ==
    LET type == IF received = "image/jpg" THEN "image/jpeg" ELSE received
    IN  IF type = "" \/ type = "application/octet-stream"
        THEN IF o.Accept # "" THEN o.Accept
             ELSE IF typeByExtension(o.URL) # "" THEN typeByExtension(o.URL)
             ELSE type
        ELSE type

\* resContentType: the Content-Type of the response as Send computes it
responseContentType(o, received) ==
    LET type == IF received = "image/jpg" THEN "image/jpeg" ELSE received
    IN  IF type = "" \/ type = "application/octet-stream"
        THEN IF o.Accept # "" /\ o.Accept # "*" THEN o.Accept
             ELSE IF typeByExtension(o.URL) # "" THEN typeByExtension(o.URL)
             ELSE type
        ELSE type

\* a faulty variant of statusFailure: the body of the response is dropped
statusFailureWithoutBody(status, readable) ==
    [content |-> NilContent, err |-> FromHTTPStatusCode(status)]

\* a faulty variant of statusFailure: a status of RetryableStatusCodes on the
\* last attempt ends the loop as a transport failure does
statusFailureGivingUp(status, readable) ==
    IF isRetryableStatus(options, status)
    THEN [content |-> NilContent, err |-> GivingUp(options.Attempts)]
    ELSE [content |-> IF readable THEN responseContent(status) ELSE NilContent,
          err |-> FromHTTPStatusCode(status)]

\* what Send returns for a status >= 400 that is not retried
statusFailure(status, readable) ==
    [content |-> IF readable THEN responseContent(status) ELSE NilContent,
     err |-> FromHTTPStatusCode(status)]

\* a faulty variant of writerSuccess: the Content holds the bytes streamed
writerSuccessWithData(o, r, status) ==
    [content |-> responseContentWith(responseBody(status),
                                     responseContentType(o, server.contentType), 0),
     err |-> ErrNil,
     results |-> [r EXCEPT !.written = @ \o responseBody(status)]]

\* results is an io.Writer: io.Copy streams the body into it and the Content
\* has no Data and the number of bytes copied as Length
writerSuccess(o, r, status) ==
    [content |-> responseContentWith(<<>>, responseContentType(o, server.contentType),
                                     Len(responseBody(status))),
     err |-> ErrNil,
     results |-> [r EXCEPT !.written = @ \o responseBody(status)]]

\* a faulty variant of decodedSuccess: the error of json.Unmarshal is returned
decodedSuccessOrError(o, r, status) ==
    IF server.json
    THEN [content |-> responseContentWith(responseBody(status),
                                          responseContentType(o, server.contentType), 0),
          err |-> ErrNil, results |-> [r EXCEPT !.decoded = TRUE]]
    ELSE [content |-> NilContent,
          err |-> [kind |-> "JSONUnmarshalError", what |-> "", value |-> "", code |-> 0],
          results |-> r]

\* results is not nil and no io.Writer: the body is buffered, then decoded
\* into results by json.Unmarshal, whose error is only logged
decodedSuccess(o, r, status) ==
    [content |-> responseContentWith(responseBody(status),
                                     responseContentType(o, server.contentType), 0),
     err |-> ErrNil,
     results |-> [r EXCEPT !.decoded = server.json]]

\* what Send returns for a status < 400, and what becomes of results
statusSuccess(o, r, status, readable) ==
    IF ~readable
    THEN [content |-> NilContent, err |-> ReadFailure, results |-> r]
    ELSE IF r.kind = "Writer" THEN writerSuccess(o, r, status)
    ELSE IF r.kind # "nil" THEN decodedSuccess(o, r, status)
    ELSE [content |-> responseContentWith(responseBody(status),
                                          responseContentType(o, server.contentType),
                                          Len(responseBody(status))),
          err |-> ErrNil, results |-> r]

\* the latest outcome of httpclient.Do, as the transport produced it
NoOutcome == [kind |-> "none", error |-> "", status |-> 0, readable |-> FALSE]

ErrorOutcome(e) == [kind |-> "error", error |-> e.name, status |-> 0, readable |-> FALSE]

ResponseOutcome(status, readable) ==
    [kind |-> "response", error |-> "", status |-> status, readable |-> readable]

\* the record of an outcome kept in outcomes: what the transport produced,
\* described without the tests Send makes of it
Transient(e) == e.timeout \/ e.temporary \/ e.eof \/ e.deadline \/ e.reset

ErrorClass(e) == IF Transient(e) THEN "transient error" ELSE "other error"

StatusClass(status) ==
    IF status \in options.RetryableStatusCodes
    THEN (IF status >= 400 THEN "listed status >= 400" ELSE "listed status < 400")
    ELSE (IF status >= 400 THEN "unlisted status >= 400" ELSE "unlisted status < 400")

----------------------------------------------------------------------------
(* The waits of Send *)

Max(a, b) == IF a >= b THEN a ELSE b

IsDigit(c) == \E n \in 1..10 : Digits[n] = c

DigitValue(c) == CHOOSE n \in 0..9 : Digits[n + 1] = c

RECURSIVE ParseDigits(_, _)
ParseDigits(s, acc) ==
    IF s = <<>> THEN acc ELSE ParseDigits(Tail(s), 10 * acc + DigitValue(Head(s)))

\* core.Atoi(value, fallback): strconv.Atoi of the characters of value, and
\* fallback when they are no number
Atoi(value, fallback) ==
    LET signed == value # <<>> /\ Head(value) \in {"+", "-"}
        digits == IF signed THEN Tail(value) ELSE value
    IN  IF digits = <<>> \/ \E i \in 1..Len(digits) : ~IsDigit(digits[i])
        THEN fallback
        ELSE IF signed /\ Head(value) = "-"
        THEN 0 - ParseDigits(digits, 0)
        ELSE ParseDigits(digits, 0)

\* n * m + carry, for a natural number n written as its digits in base 10000,
\* the lowest first: the int64 values of the program do not fit the integers
\* of the model checker
RECURSIVE BigTimes(_, _, _)
BigTimes(n, m, carry) ==
    IF n = <<>>
    THEN IF carry = 0 THEN <<>>
         ELSE <<carry % 10000>> \o BigTimes(<<>>, m, carry \div 10000)
    ELSE LET p == Head(n) * m + carry
         IN  <<p % 10000>> \o BigTimes(Tail(n), m, p \div 10000)

\* a >= b for two such numbers
RECURSIVE BigAtLeast(_, _)
BigAtLeast(a, b) ==
    IF Len(a) # Len(b) THEN Len(a) > Len(b)
    ELSE IF a = <<>> THEN TRUE
    ELSE IF a[Len(a)] # b[Len(b)] THEN a[Len(a)] > b[Len(b)]
    ELSE BigAtLeast(SubSeq(a, 1, Len(a) - 1), SubSeq(b, 1, Len(b) - 1))

\* 9223372037, the least number of seconds s for which
\* time.Duration(s) * time.Second is beyond the int64 nanoseconds (2^63 - 1)
Int64Seconds == <<2037, 2337, 92>>

\* whether math.Pow(d / Second, k), for d > Second, is a number of seconds
\* beyond int64 nanoseconds: num = d^j reaches limit = Int64Seconds * Second^j
\* for some j <= k (the powers of a base above 1 grow)
RECURSIVE powOverflows(_, _, _, _)
powOverflows(d, k, num, limit) ==
    IF BigAtLeast(num, limit) THEN TRUE
    ELSE IF k = 0 THEN FALSE
    ELSE powOverflows(d, k - 1, BigTimes(num, d, 0), BigTimes(limit, Second, 0))

\* time.Duration(math.Pow(d / Second, k)): the power num / den truncated to
\* whole seconds, or MaxSleep + 1 once it is above MaxSleep
RECURSIVE powSeconds(_, _, _, _)
powSeconds(d, k, num, den) ==
    IF num \div den > MaxSleep THEN MaxSleep + 1
    ELSE IF k = 0 THEN num \div den
    ELSE powSeconds(d, k - 1, num * d, den * Second)

\* int(elapsed/options.InterAttemptBackoffInterval) + 1
interval(o, elapsed) == elapsed \div o.InterAttemptBackoffInterval + 1

\* what is left of a product that left int64: the bits that wrapped around
\* are a negative, a null or a positive duration
WrappedDurations == {0 - Second, 0, (MaxSleep + 1) * Second}

\* time.Duration(math.Pow(options.InterAttemptDelay.Seconds(),
\* float64(interval))) * time.Second: the durations time.Sleep may be given
exponentialBackoff(o, elapsed) ==
    LET d == o.InterAttemptDelay
        k == interval(o, elapsed)
    IN  IF d <= Second THEN {(d \div Second) * Second}
        ELSE IF powOverflows(d, k, <<1>>, Int64Seconds) THEN WrappedDurations
        ELSE {powSeconds(d, k, 1, 1) * Second}

\* a faulty variant of retryAfterFromHeader: the second of safety is not added
retryAfterFromHeaderUnpadded(header) == Atoi(header, 0) * Second

\* time.Duration(core.Atoi(res.Header.Get("Retry-After"), 0))*time.Second
\* + 1*time.Second
retryAfterFromHeader(header) == Atoi(header, 0) * Second + 1 * Second

\* the durations time.Sleep may be given after a retryable status
statusWait(o, header, elapsed) ==
    IF o.InterAttemptUseRetryAfter /\ Len(header) > 0
    THEN {retryAfterFromHeader(header)}
    ELSE exponentialBackoff(o, elapsed)

\* the duration time.Sleep is given after a retryable transport failure
errorWait(o) == o.InterAttemptDelay

\* a time.Sleep of Send: what it follows, the duration it is given, the time
\* since start, the Retry-After header of the response and the state of the
\* caller's context when it begins
Wait(cause, duration, elapsed, header) ==
    [cause |-> cause, duration |-> duration, elapsed |-> elapsed,
     header |-> header, ctx |-> ctx]

----------------------------------------------------------------------------
(* The transport *)

\* the server has not answered when http.Client.Timeout ends the attempt
timesOut(o) == o.Timeout > 0 /\ server.latency > o.Timeout

\* reqDuration: how long httpclient.Do lasts
requestDuration(o) ==
    IF ctx # "live" THEN 0
    ELSE IF timesOut(o) THEN o.Timeout
    ELSE server.latency

\* the errors httpclient.Do may return
DoErrors(o) ==
    IF ctx = "canceled" THEN {ContextCanceled}
    ELSE IF ctx = "expired" THEN {ContextDeadlineExceeded}
    ELSE IF timesOut(o) THEN {e \in NetErrors : e.timeout}
    ELSE NetErrors

\* httpclient.Do may return a response
Responds(o) == ctx = "live" /\ ~timesOut(o)

\* how the context a caller passes may end
ContextEndings(context) ==
    IF context = "WithCancel" THEN {"canceled"}
    ELSE IF context = "WithDeadline" THEN {"canceled", "expired"}
    ELSE {}

----------------------------------------------------------------------------
(* The steps of Send *)

\* a faulty variant of closeBodies: only the body of the last response is closed
closeLastBody(open) == IF open > 0 THEN open - 1 ELSE 0

\* the deferred res.Body.Close() calls run when Send is left: no body of the
\* call stays open
closeBodies(open) == 0

\* the deferred progressCloser.Close() runs when Send is left, if the
\* ProgressWriter is an io.Closer
closeProgress(o, n) == IF o.ProgressWriter = "WriteCloser" THEN n + 1 ELSE n

\* return content, err, after the response of this attempt if received = 1:
\* the deferred calls run
Return(r, received) ==
    /\ pc' = "done"
    /\ result' = r
    /\ openBodies' = closeBodies(openBodies + received)
    /\ closes' = closeProgress(options, closes)

\* a panic leaves Send: the deferred calls run
Panic ==
    /\ pc' = "panic"
    /\ openBodies' = closeBodies(openBodies)
    /\ closes' = closeProgress(options, closes)

\* time.Sleep(duration), req, _ = buildRequest(log, options), continue; a
\* sleep of more than MaxSleep seconds is not followed to its end
Retry(cause, duration, elapsed, header) ==
    /\ waits' = Append(waits, Wait(cause, duration, elapsed, header))
    /\ UNCHANGED closes
    /\ IF duration > MaxSleep * Second
       THEN /\ pc' = "asleep"
            /\ UNCHANGED <<options, streamPos, attempt, req, clock, result>>
       ELSE \E io \in {"ok", "fail"}, boundary \in Boundaries :
              LET b == buildRequest(options, streamPos, io, boundary)
              IN  /\ req' = b.req
                  /\ options' = b.options
                  /\ streamPos' = b.pos
                  /\ attempt' = attempt + 1
                  /\ clock' = elapsed + Max(duration, 0)
                  /\ UNCHANGED <<pc, result>>

\* Send up to the loop: normalizeOptions, then the first buildRequest
SendStart ==
    /\ pc = "idle"
    /\ \E uuid \in UUIDs, io \in {"ok", "fail"}, boundary \in Boundaries :
        LET n == normalizeOptions(options, results, uuid)
            b == buildRequest(n.options, streamPos, io, boundary)
        IN  IF n.err # ErrNil
            THEN \* return nil, err before anything is deferred
                 /\ options' = n.options
                 /\ pc' = "done"
                 /\ result' = [content |-> NilContent, err |-> n.err]
                 /\ UNCHANGED <<streamPos, req, attempt, openBodies, closes>>
            ELSE /\ options' = b.options
                 /\ streamPos' = b.pos
                 /\ IF b.err = InterfaceConversionPanic
                    THEN /\ Panic
                         /\ UNCHANGED <<req, attempt, result>>
                    ELSE IF b.err # ErrNil
                    THEN /\ Return([content |-> NilContent, err |-> b.err], 0)
                         /\ UNCHANGED <<req, attempt>>
                    ELSE /\ pc' = "loop"
                         /\ req' = b.req
                         /\ attempt' = 0
                         /\ UNCHANGED <<result, openBodies, closes>>
    /\ UNCHANGED <<given, server, results, ctx, clock, sent, waits, outcomes, last,
                   args, built, returned>>

\* for attempt := uint(0); attempt < options.Attempts; attempt++
InLoop == pc = "loop" /\ attempt < options.Attempts

\* a call of ContentWithData has no part in a call of Send
NoArguments == [data |-> <<>>, options |-> <<>>, reader |-> "none"]

NoReturn ==
    [op |-> "none", algorithm |-> 0, key |-> 0, maxSize |-> 0,
     content |-> NilContent, text |-> <<>>, err |-> ErrNil]

\* an iteration that starts with the nil request of a failed rebuild:
\* req.Header.Set dereferences it and Send panics
AttemptOnNilRequest ==
    /\ InLoop
    /\ req.isNil
    /\ Panic
    /\ UNCHANGED <<given, server, results, options, ctx, clock, streamPos, attempt,
                   req, sent, waits, outcomes, last, result, args, built, returned>>

\* an iteration in which httpclient.Do returns an error
TransportError ==
    /\ InLoop
    /\ ~req.isNil
    /\ \E e \in DoErrors(options) :
        /\ sent' = Append(sent, stampAttempt(req, attempt))
        /\ last' = ErrorOutcome(e)
        /\ outcomes' = Append(outcomes, ErrorClass(e))
        /\ IF isRetryableError(e)
           THEN IF attemptsRemain(options, attempt)
                THEN /\ Retry("error", errorWait(options),
                              clock + requestDuration(options), <<>>)
                     /\ UNCHANGED openBodies
                ELSE /\ Return([content |-> NilContent, err |-> exhausted(options)], 0)
                     /\ UNCHANGED <<options, streamPos, attempt, req, waits, clock>>
           ELSE /\ Return([content |-> NilContent, err |-> TransportFailure(e.name)], 0)
                /\ UNCHANGED <<options, streamPos, attempt, req, waits, clock>>
    /\ UNCHANGED <<given, server, results, ctx, args, built, returned>>

\* an iteration in which the response has a status >= 400
ErrorResponse ==
    /\ InLoop
    /\ ~req.isNil
    /\ Responds(options)
    /\ \E status \in Statuses, readable \in BOOLEAN :
        /\ isErrorStatus(status)
        /\ sent' = Append(sent, stampAttempt(req, attempt))
        /\ last' = ResponseOutcome(status, readable)
        /\ outcomes' = Append(outcomes, StatusClass(status))
        /\ IF isRetryableStatus(options, status) /\ attemptsRemain(options, attempt)
           THEN /\ \E duration \in statusWait(options, server.retryAfter,
                                              clock + requestDuration(options)) :
                      Retry("status", duration, clock + requestDuration(options),
                            server.retryAfter)
                /\ openBodies' = openBodies + 1
           ELSE /\ Return(statusFailure(status, readable), 1)
                /\ UNCHANGED <<options, streamPos, attempt, req, waits, clock>>
    /\ UNCHANGED <<given, server, results, ctx, args, built, returned>>

\* an iteration in which the response has a status < 400
SuccessResponse ==
    /\ InLoop
    /\ ~req.isNil
    /\ Responds(options)
    /\ \E status \in Statuses, readable \in BOOLEAN :
        /\ ~isErrorStatus(status)
        /\ sent' = Append(sent, stampAttempt(req, attempt))
        /\ last' = ResponseOutcome(status, readable)
        /\ outcomes' = Append(outcomes, StatusClass(status))
        /\ LET s == statusSuccess(options, results, status, readable)
           IN  /\ Return([content |-> s.content, err |-> s.err], 1)
               /\ results' = s.results
        /\ UNCHANGED <<options, streamPos, attempt, req, waits, clock>>
    /\ UNCHANGED <<given, server, ctx, args, built, returned>>

\* the caller cancels the context, or its deadline passes, before the call or
\* during it
ContextEnds ==
    /\ pc \in {"idle", "loop"}
    /\ ctx = "live"
    /\ \E end \in ContextEndings(given.Context) : ctx' = end
    /\ UNCHANGED <<given, server, results, options, clock, streamPos, pc, attempt,
                   req, sent, waits, outcomes, last, openBodies, closes, result,
                   args, built, returned>>

----------------------------------------------------------------------------
(* The calls of Send that are explored *)

BaseOptions ==
    [isNil |-> FALSE,
     URL |-> "http://host/path", RawQuery |-> NoValues, Parameters |-> NoFields,
     RequestBodyLogSize |-> 0, ResponseBodyLogSize |-> 0,
     Context |-> "nil", Method |-> "", Attempts |-> 0,
     RequestID |-> "", Accept |-> "", Headers |-> NoFields,
     RetryableStatusCodes |-> {}, ProgressWriter |-> "nil",
     Timeout |-> 0, InterAttemptDelay |-> 0, InterAttemptBackoffInterval |-> 0,
     InterAttemptUseRetryAfter |-> FALSE,
     Payload |-> NilValue, PayloadType |-> "",
     Attachment |-> NilValue, AttachmentType |-> ""]

\* a server that answers at once, without a Retry-After header; its bodies
\* are text of one chunk (rest holds the chunks that follow the first) that
\* does not decode as JSON
QuietServer ==
    [latency |-> 0, retryAfter |-> <<>>, contentType |-> "text/plain",
     rest |-> <<>>, json |-> FALSE]

\* the results argument: nil, an io.Writer, or a pointer to decode JSON into
NilResults == [kind |-> "nil", written |-> <<>>, decoded |-> FALSE]

WriterResults == [NilResults EXCEPT !.kind = "Writer"]

StructResults == [NilResults EXCEPT !.kind = "Struct"]

\* a call Send(o, r) to the server s
Call(o, r, s) == [options |-> o, results |-> r, server |-> s]

Scenario(o, s) == Call(o, NilResults, s)

HeaderChoices ==
    { NoFields,
      [k \in {"X-Attempt"} |-> "99"],
      [k \in {"X-Request-Id"} |-> "from-headers"],
      [k \in {"X-Attempt", "X-Request-Id"} |-> "7"] }

RetryableChoices == { {}, {503}, {202, 404} }

PayloadChoices ==
    { NilValue, ContentValue, ContentPointer, SeekerStream("p"), ReaderStream("p"),
      StructValue, StructPointer, SliceValue, MapValue, IntValue, StringValue }

AttachmentChoices == { NilValue, SeekerStream("a"), ReaderStream("a") }

\* calls that vary the retry policy and the headers
RetryCalls ==
    { [BaseOptions EXCEPT !.Attempts = a, !.RetryableStatusCodes = r,
                          !.Headers = h, !.RequestID = id] :
        a \in 0..MaxAttempts, r \in RetryableChoices, h \in HeaderChoices,
        id \in {"", "caller-id"} }

\* calls that vary the payload and the attachment
PayloadCalls ==
    { [BaseOptions EXCEPT !.Attempts = a, !.Payload = p, !.Attachment = t] :
        a \in 0..MaxAttempts, p \in PayloadChoices, t \in AttachmentChoices }

\* Send(nil, results)
NilOptions == [BaseOptions EXCEPT !.isNil = TRUE, !.URL = ""]

\* calls without options and calls without a URL
InvalidCalls ==
    { NilOptions }
    \cup { [BaseOptions EXCEPT !.URL = "", !.Attempts = a, !.Payload = p,
                              !.ProgressWriter = w] :
             a \in {0, 2}, p \in {NilValue, StructValue, ReaderStream("p")},
             w \in {"nil", "WriteCloser"} }

\* calls that vary the retry parameters around the thresholds of normalizeOptions
NormalizedCalls ==
    { [BaseOptions EXCEPT !.Attempts = 1, !.Timeout = t, !.InterAttemptDelay = d,
                          !.InterAttemptBackoffInterval = b] :
        t \in {0 - Second, 0, Second \div 2, 3 * Second},
        d \in {0, Second \div 2, Second, 4 * Second},
        b \in {0, Second \div 2, Second, Minute} }

\* calls of a multipart form: the entries of the map and the attachment vary
MultipartCalls ==
    { [BaseOptions EXCEPT !.Attempts = a, !.Payload = MapOf(f), !.Attachment = t] :
        a \in 1..2,
        f \in { [k \in {">file", "name"} |-> "test"],
                [k \in {">", "name"} |-> "test"],
                [k \in {">file"} |-> ""],
                [k \in {">"} |-> ""],
                [k \in {"name"} |-> "test"] },
        t \in {SeekerStream("a"), SeekerStream("e")} }

\* calls of a Content or *Content payload, with and without a Type, a
\* PayloadType and an attachment
ContentCalls ==
    { [BaseOptions EXCEPT !.Attempts = 2, !.Payload = p, !.PayloadType = pt,
                          !.Attachment = t, !.AttachmentType = "image/png"] :
        p \in {ContentOf(""), ContentOf("text/plain"),
               ContentPointerOf(""), ContentPointerOf("text/plain")},
        pt \in {"", "application/json"},
        t \in {NilValue, SeekerStream("a")} }

\* calls of an array or slice payload under the payload types buildRequestContent
\* tells apart
SliceCalls ==
    { [BaseOptions EXCEPT !.Attempts = a, !.Payload = p, !.PayloadType = pt] :
        a \in 1..2,
        p \in {SliceValue, ByteSlice, ByteArray},
        pt \in {"", "application/octet-stream", "application/json", "text/plain"} }

\* calls of a payload json.Marshal fails on
MarshalCalls ==
    { [BaseOptions EXCEPT !.Attempts = a, !.Payload = Unmarshalable(p),
                          !.PayloadType = pt] :
        a \in {1, MaxAttempts},
        p \in {StructValue, StructPointer, SliceValue, MapValue},
        pt \in {"", "application/json"} }

\* calls with and without a method, with payloads of some and of no bytes
MethodCalls ==
    { [BaseOptions EXCEPT !.Attempts = a, !.Method = m, !.Payload = p] :
        a \in {1, MaxAttempts},
        m \in {"", "GET", "PUT"},
        p \in {NilValue, StructValue, SeekerStream("p"), SeekerStream("e")} }

\* calls under a context the caller can cancel or that has a deadline
ContextCalls ==
    { [BaseOptions EXCEPT !.Attempts = a, !.Context = c] :
        a \in 1..MaxAttempts, c \in {"Background", "WithCancel", "WithDeadline"} }

\* the defaults, with a server slow enough for the call to last minutes
SlowScenarios ==
    { Scenario([BaseOptions EXCEPT !.Attempts = MaxAttempts, !.Timeout = t],
               [QuietServer EXCEPT !.latency = l]) :
        t \in {0, 5 * Minute}, l \in {0, 5 * Minute} }

\* delays of whole and half seconds with short backoff intervals
BackoffScenarios ==
    { Scenario([BaseOptions EXCEPT !.Attempts = a, !.InterAttemptDelay = d,
                                   !.InterAttemptBackoffInterval = b],
               [QuietServer EXCEPT !.latency = l]) :
        a \in {0, MaxAttempts},
        d \in {Second, (3 * Second) \div 2, 2 * Second, (5 * Second) \div 2},
        b \in {Second, 5 * Second},
        l \in {0, Second} }

\* responses of the types Send corrects or completes, to calls with and
\* without Accept, to a URL with and without a known file extension
ResponseScenarios ==
    { Call([BaseOptions EXCEPT !.Attempts = 1, !.Accept = a, !.URL = u], r,
           [QuietServer EXCEPT !.contentType = t]) :
        a \in {"", "*", "text/csv"},
        u \in {"http://host/path", "http://host/image.png"},
        r \in {NilResults, WriterResults, StructResults},
        t \in {"", "image/jpg", "application/octet-stream", "text/plain"} }

\* calls with a results argument and a ProgressWriter, to a server whose
\* bodies have one or two chunks that decode as JSON or do not
ResultsScenarios ==
    { Call([BaseOptions EXCEPT !.Attempts = a, !.ProgressWriter = w], r,
           [QuietServer EXCEPT !.rest = b, !.json = j]) :
        a \in 1..2,
        w \in {"nil", "Writer", "WriteCloser"},
        r \in {WriterResults, StructResults},
        b \in {<<>>, <<"more">>},
        j \in BOOLEAN }

\* servers that send a Retry-After header
RetryAfterScenarios ==
    { Scenario([BaseOptions EXCEPT !.Attempts = MaxAttempts,
                                   !.InterAttemptUseRetryAfter = u,
                                   !.InterAttemptDelay = d],
               [QuietServer EXCEPT !.retryAfter = h]) :
        u \in BOOLEAN, d \in {0, 2 * Second},
        h \in { <<>>, <<"2">>, <<"1", "0">>, <<"s", "o", "o", "n">> } }

Scenarios ==
    { Scenario(o, QuietServer) :
        o \in RetryCalls \cup PayloadCalls \cup InvalidCalls \cup NormalizedCalls
              \cup MultipartCalls \cup ContentCalls \cup ContextCalls
              \cup SliceCalls \cup MarshalCalls \cup MethodCalls }
    \cup SlowScenarios \cup BackoffScenarios \cup RetryAfterScenarios
    \cup ResponseScenarios \cup ResultsScenarios

Init ==
    /\ \E s \in Scenarios :
          given = s.options /\ server = s.server /\ results = s.results
    /\ options = given
    /\ ctx = "live"
    /\ clock = 0
    /\ streamPos = [p |-> 0, a |-> 0, e |-> 0]
    /\ pc = "idle"
    /\ attempt = 0
    /\ req = NilRequest
    /\ sent = <<>>
    /\ waits = <<>>
    /\ outcomes = <<>>
    /\ last = NoOutcome
    /\ openBodies = 0
    /\ closes = 0
    /\ result = [content |-> NilContent, err |-> ErrNil]
    /\ args = NoArguments
    /\ built = NilContent
    /\ returned = NoReturn

Next ==
    \/ SendStart
    \/ AttemptOnNilRequest
    \/ TransportError
    \/ ErrorResponse
    \/ SuccessResponse
    \/ ContextEnds

Spec == Init /\ [][Next]_vars

----------------------------------------------------------------------------
(* Properties of Send *)

Calls == Len(sent)

Returned == pc = "done"

EveryOutcomeIs(class) ==
    outcomes # <<>> /\ \A i \in 1..Len(outcomes) : outcomes[i] = class

LastClass == IF outcomes = <<>> THEN "none" ELSE outcomes[Len(outcomes)]

XAttempt(k) == sent[k].Header["X-Attempt"]

XRequestId(k) == sent[k].Header["X-Request-Id"]

\* the last transport call was the last one Attempts allows
NoAttemptsRemain == Calls = options.Attempts

C2_AttemptHeader ==
    /\ \A k \in 1..Calls : XAttempt(k) = FormatUint(k)
    /\ Calls > 0 => Calls <= options.Attempts /\ options.Attempts >= 1

C2_Witness ==
    /\ "X-Attempt" \in DOMAIN given.Headers
    /\ Calls = MaxAttempts
    /\ XAttempt(MaxAttempts) = FormatUint(MaxAttempts)

\* C3: all the requests of one call carry the same X-Request-Id; unless
\* options.Headers sets that header itself, it is the RequestID fixed by
\* normalizeOptions: the caller's, or one generated value when that is empty
C3_StableRequestId ==
    /\ \A j, k \in 1..Calls : XRequestId(j) = XRequestId(k)
    /\ "X-Request-Id" \notin DOMAIN given.Headers =>
          \A k \in 1..Calls :
              /\ XRequestId(k) = options.RequestID
              /\ given.RequestID # "" => XRequestId(k) = given.RequestID
              /\ given.RequestID = "" => XRequestId(k) \in UUIDs

C3_Witness ==
    /\ given.RequestID = ""
    /\ "X-Request-Id" \notin DOMAIN given.Headers
    /\ Calls >= 3
    /\ waits # <<>>
    /\ XRequestId(3) \in UUIDs

\* the payload bytes of a request body: a multipart body without its first and
\* last lines, which hold the boundary multipart.NewWriter draws afresh
PayloadBytes(r) ==
    IF "Content-Type" \in DOMAIN r.Header
       /\ \E b \in Boundaries : r.Header["Content-Type"] = "multipart/form-data; boundary=" \o b
    THEN SubSeq(r.Body, 2, Len(r.Body) - 1)
    ELSE r.Body

ContentLength(r) ==
    IF "Content-Length" \in DOMAIN r.Header THEN r.Header["Content-Length"] ELSE ""

\* C4: every retry sends the payload again from its start: the body bytes
\* and the Content-Length of attempt k > 1 are those of attempt 1
C4_RetryResendsPayload ==
    \A k \in 2..Calls :
        /\ PayloadBytes(sent[k]) = PayloadBytes(sent[1])
        /\ ContentLength(sent[k]) = ContentLength(sent[1])

\* the streams of the call as the caller passed them
UnseekablePayload == given.Payload.reader /\ ~given.Payload.seeker

UnseekableAttachment == given.Attachment.kind # "nil" /\ ~given.Attachment.seeker

\* C5: once a call with a URL has started, if the normalized Attempts is > 1
\* (5 when left at 0) a Payload that is an io.Reader and no io.Seeker, and
\* else an Attachment that is no io.Seeker, has made Send return
\* ArgumentInvalid naming it and its runtime type without a transport call;
\* with Attempts = 1 no such error is returned
C5_SeekerGate ==
    (pc # "idle" /\ given.URL # "") =>
        /\ given.Attempts = 0 => options.Attempts = DefaultAttempts
        /\ (options.Attempts > 1 /\ UnseekablePayload) =>
              /\ Returned /\ Calls = 0 /\ result.content.isNil
              /\ result.err = ArgumentInvalid("Payload", given.Payload.rtype)
        /\ (options.Attempts > 1 /\ ~UnseekablePayload /\ UnseekableAttachment) =>
              /\ Returned /\ Calls = 0 /\ result.content.isNil
              /\ result.err = ArgumentInvalid("Attachment", given.Attachment.rtype)
        /\ options.Attempts = 1 =>
              ~(result.err.kind = "ArgumentInvalid"
                /\ result.err.what \in {"Payload", "Attachment"})

C5_Witness ==
    /\ Returned
    /\ given.Attempts = 0
    /\ UnseekablePayload
    /\ Calls = 0
    /\ result.err = ArgumentInvalid("Payload", "request_test.failingReader")

\* C6: when each of the Attempts attempts has ended in a retryable transport
\* failure, Send has made exactly Attempts transport calls and returns a nil
\* Content with the request-timeout "Giving up after N attempts" error, for
\* Attempts = 1 too; it does not return before
C6_GivingUp ==
    EveryOutcomeIs("transient error") =>
        /\ pc = "loop" => Calls < options.Attempts
        /\ Returned =>
            /\ Calls = options.Attempts
            /\ result.content.isNil
            /\ result.err = GivingUp(options.Attempts)
            /\ result.err.kind = "HTTPStatusRequestTimeout"

C6_Witness ==
    /\ Returned
    /\ EveryOutcomeIs("transient error")
    /\ Calls = MaxAttempts
    /\ options.Attempts = MaxAttempts
    /\ result.err = GivingUp(MaxAttempts)

\* the last attempt ended in a retryable transport failure and was the last
\* one allowed
LastAttemptTimedOut ==
    pc # "loop" /\ LastClass = "transient error" /\ NoAttemptsRemain

\* C7 as stated: when an attempt ends in a retryable transport failure and no
\* attempts remain, Send returns the transport error of that attempt
C7_ReturnsTransportError ==
    LastAttemptTimedOut =>
        Returned /\ result.err = TransportFailure(last.error)

\* C7 as amended: when an attempt ends in a retryable transport failure and no
\* attempts remain, Send returns the request-timeout "Giving up after N
\* attempts" error, which does not carry the transport error of that attempt
C7_ReturnsGivingUp ==
    LastAttemptTimedOut =>
        /\ Returned
        /\ result.err = GivingUp(options.Attempts)
        /\ result.err # TransportFailure(last.error)
        /\ result.content.isNil

C7_Witness ==
    /\ LastAttemptTimedOut
    /\ Calls >= 2
    /\ outcomes[1] = "listed status >= 400"
    /\ last.error = "EOF"
    /\ result.err = GivingUp(Calls)

C9_ErrorBodyReturned ==
    (/\ last.kind = "response"
     /\ last.status >= 400
     /\ last.readable
     /\ last.status \notin options.RetryableStatusCodes \/ NoAttemptsRemain) =>
        /\ Returned
        /\ Calls = Len(outcomes)
        /\ ~result.content.isNil
        /\ result.content.Data = <<"body of " \o FormatUint(last.status)>> \o server.rest
        /\ result.err = FromHTTPStatusCode(last.status)

C9_Witness ==
    /\ Returned
    /\ last.status = 404
    /\ last.readable
    /\ Calls = 2
    /\ options.Attempts > 2
    /\ ~result.content.isNil

----------------------------------------------------------------------------
(* Properties of the waits *)

\* the wait follows a retryable status and no Retry-After header is used
Backoff(w) ==
    w.cause = "status" /\ ~(options.InterAttemptUseRetryAfter /\ w.header # <<>>)

\* the interval a wait falls in: floor(elapsed / InterAttemptBackoffInterval) + 1
IntervalOf(w) == w.elapsed \div options.InterAttemptBackoffInterval + 1

\* duration is (d / Second)^k seconds, with num / den = (d / Second)^j the
\* power reached so far: duration / Second = num / den at j = k; a power
\* above MaxSleep seconds is matched by a sleep above MaxSleep seconds
RECURSIVE IsPower(_, _, _, _, _)
IsPower(duration, d, k, num, den) ==
    IF num \div den > MaxSleep THEN duration > MaxSleep * Second
    ELSE IF k = 0 THEN duration * den = Second * num
    ELSE IsPower(duration, d, k - 1, num * d, den * Second)

\* the wait is InterAttemptDelay in seconds to the power of its interval, in
\* seconds
IsDelayToThePowerOfInterval(w) ==
    IF options.InterAttemptDelay = Second THEN w.duration = Second
    ELSE IsPower(w.duration, options.InterAttemptDelay, IntervalOf(w), 1, 1)

DefaultBackoff ==
    /\ options.InterAttemptDelay = DefaultInterAttemptDelay
    /\ options.InterAttemptBackoffInterval = DefaultInterAttemptBackoffInterval

\* C11: a wait that follows a retryable status without Retry-After lasts
\* (InterAttemptDelay in seconds)^interval seconds, with interval =
\* floor(elapsed / InterAttemptBackoffInterval) + 1; with the defaults that is
\* 3s in the first 5 minutes, 9s from 5 to 10 minutes and 27s from 10 to 15
\* minutes; two such waits of the same interval last the same time
C11_ExponentialBackoff ==
    \A i \in 1..Len(waits) :
        Backoff(waits[i]) =>
            /\ IsDelayToThePowerOfInterval(waits[i])
            /\ DefaultBackoff =>
                  /\ IntervalOf(waits[i]) = 1 => waits[i].duration = 3 * Second
                  /\ IntervalOf(waits[i]) = 2 => waits[i].duration = 9 * Second
                  /\ IntervalOf(waits[i]) = 3 => waits[i].duration = 27 * Second
            /\ \A j \in 1..Len(waits) :
                  (Backoff(waits[j]) /\ IntervalOf(waits[j]) = IntervalOf(waits[i])) =>
                      waits[j].duration = waits[i].duration

\* the wait follows a retryable status whose Retry-After header is used
FromRetryAfter(w) ==
    w.cause = "status" /\ options.InterAttemptUseRetryAfter /\ w.header # <<>>

\* C12: with InterAttemptUseRetryAfter set, the wait after a retryable
\* response with a non-empty Retry-After header is the header's number of
\* seconds plus one second (a header that is not a number counts as 0),
\* whatever InterAttemptDelay and the elapsed time are; with the option unset
\* or without the header the wait is the exponential one
C12_RetryAfterPlusOneSecond ==
    \A i \in 1..Len(waits) :
        /\ FromRetryAfter(waits[i]) =>
              waits[i].duration = (Atoi(waits[i].header, 0) + 1) * Second
        /\ Backoff(waits[i]) =>
              waits[i].duration \in exponentialBackoff(options, waits[i].elapsed)

\* a Retry-After of 2 made Send wait 3s although the backoff would be 2s
C12_Witness ==
    /\ options.InterAttemptDelay = 2 * Second
    /\ \E i \in 1..Len(waits) :
          /\ FromRetryAfter(waits[i])
          /\ waits[i].header = <<"2">>
          /\ waits[i].duration = 3 * Second
          /\ exponentialBackoff(options, waits[i].elapsed) = {2 * Second}
    /\ Len(sent) > 1

\* C13: after a retryable transport failure with attempts remaining Send
\* sleeps InterAttemptDelay, whatever the elapsed time, and the next attempt
\* is then issued with the request buildRequest has built anew
C13_FixedDelayThenNextAttempt ==
    \A i \in 1..Len(waits) :
        waits[i].cause = "error" =>
            /\ waits[i].duration = options.InterAttemptDelay
            /\ \/ Len(sent) > i
               \/ pc = "loop" /\ ~req.isNil

ContextErrors == {ContextCanceled.name, ContextDeadlineExceeded.name}

\* C15: once the caller's context is canceled or its deadline has passed,
\* Send does not sleep and makes no further attempt: the attempt that meets
\* the ended context is the last one and Send returns its
\* cancellation/deadline error (the context's own error, or the timeout
\* error of the exhausted attempts when it was the last one allowed), even
\* when attempts remain
C15_ContextEndStopsRetrying ==
    /\ \A i \in 1..Len(waits) : waits[i].ctx = "live"
    /\ (last.kind = "error" /\ last.error \in ContextErrors) =>
          /\ Returned
          /\ result.content.isNil
          /\ result.err \in {TransportFailure(last.error), GivingUp(options.Attempts)}

\* C16: when Send has returned, by whichever exit (success, terminal status,
\* transport error, attempts exhausted), no response body received during the
\* call is left open
C16_BodiesClosedOnReturn == Returned => openBodies = 0

\* Send has returned on a transport error after a response it had retried
C16_Witness ==
    /\ Returned
    /\ Calls >= 2
    /\ waits[1].cause = "status"
    /\ last.kind = "error"
    /\ openBodies = 0

\* the call builds a multipart form: a map payload, not sent as JSON, with an
\* attachment that passes the stream check of normalizeOptions
MultipartCall ==
    /\ given.URL # ""
    /\ given.Payload.kind = "Map"
    /\ given.PayloadType # "application/json"
    /\ given.Attachment.kind # "nil"
    /\ options.Attempts > 1 => given.Attachment.seeker

\* the ">" entries of the map the caller passed
AttachmentEntries == {k \in DOMAIN given.Payload.fields : hasAttachmentPrefix(k)}

\* Send has returned err without a transport call
FailedBeforeTransport(err) ==
    Returned /\ Calls = 0 /\ result.content.isNil /\ result.err = err

\* the errors of a seek or a copy of the attachment that fails
AttachmentIOErrors(key) ==
    { PlainError("Failed to seek to beginning of attachment for field " \o key),
      PlainError("Failed to write attachment to multipart form field " \o key) }

\* C17: in a multipart call that has started, a ">" entry whose key is empty
\* once ">" is stripped has made Send return 'Empty key for multipart form
\* field with attachment'; else an empty file name has made it return 'Empty
\* value for multipart form field <key>'; else an attachment without bytes to
\* copy has made it return 'Missing/Empty Attachment for multipart form field
\* <key>' (or the error of the failed seek or copy); each without a transport
\* call
C17_MultipartChecksInOrder ==
    (pc # "idle" /\ MultipartCall) =>
        \A entry \in AttachmentEntries :
            LET key   == trimAttachmentPrefix(entry)
                value == given.Payload.fields[entry]
                empty == PlainError("Missing/Empty Attachment for multipart form field " \o key)
            IN  /\ key = "" =>
                      FailedBeforeTransport(
                          PlainError("Empty key for multipart form field with attachment"))
                /\ (key # "" /\ value = "") =>
                      FailedBeforeTransport(
                          PlainError("Empty value for multipart form field " \o key))
                /\ (key # "" /\ value # ""
                      /\ StreamData[given.Attachment.stream] = <<>>) =>
                      \E err \in {empty} \cup AttachmentIOErrors(key) :
                          FailedBeforeTransport(err)
                /\ result.err = empty =>
                      /\ key # "" /\ value # ""
                      /\ Calls = 0

\* the entry ">" with an empty file name has failed on its key, although the
\* attachment is empty as well
C17_Witness ==
    /\ MultipartCall
    /\ AttachmentEntries = {">"}
    /\ given.Payload.fields[">"] = ""
    /\ StreamData[given.Attachment.stream] = <<>>
    /\ FailedBeforeTransport(
           PlainError("Empty key for multipart form field with attachment"))

\* the value buildRequestContent classifies: the payload, or the attachment
\* of a call without payload
Classified == IF given.Payload.kind = "nil" THEN given.Attachment ELSE given.Payload

IsContent(v) == v.rtype \in {"request.Content", "*request.Content"}

ContentType(r) ==
    IF "Content-Type" \in DOMAIN r.Header THEN r.Header["Content-Type"] ELSE ""

\* C18: the first request shows the first rule the payload matches, in the
\* order nil, Content, *Content, io.Reader, struct or pointer to struct,
\* array/slice, map: without payload and attachment the body is empty,
\* without length and type; a Content gives its Data; else an io.Reader is
\* drained into the body, be it a pointer to a struct; else a struct, a
\* pointer to a struct, an array or a slice is JSON-marshaled (a []byte
\* under application/octet-stream is sent as it is); else a map is sent as a
\* form or a multipart form
C18_FirstMatchingRule ==
    Calls >= 1 =>
        LET v == Classified
            r == sent[1]
        IN  /\ v.kind = "nil" =>
                  /\ r.Body = <<>>
                  /\ ContentType(r) = "" /\ ContentLength(r) = ""
            /\ IsContent(v) => r.Body = v.data
            /\ (~IsContent(v) /\ v.reader) => r.Body = StreamData[v.stream]
            /\ (~IsContent(v) /\ ~v.reader /\ v.kind \in {"Struct", "PtrStruct", "Slice"}) =>
                  IF v.rtype = "[]uint8" /\ given.PayloadType = "application/octet-stream"
                  THEN r.Body = v.data
                  ELSE /\ r.Body = v.json
                       /\ given.PayloadType = "" => ContentType(r) = "application/json"
            /\ (v.kind = "Map" /\ given.PayloadType = "") =>
                  IF given.Attachment.kind = "nil"
                  THEN ContentType(r) = "application/x-www-form-urlencoded"
                  ELSE \E b \in Boundaries :
                          ContentType(r) = "multipart/form-data; boundary=" \o b

\* a *bytes.Reader payload, a pointer to a struct that is an io.Reader, was
\* drained into the body of the first request and not marshaled
C18_Witness ==
    /\ Calls >= 1
    /\ given.Payload = SeekerStream("p")
    /\ given.Payload.kind = "PtrStruct"
    /\ sent[1].Body = <<"p1", "p2">>
    /\ sent[1].Body # given.Payload.json

\* the payload the caller passed has none of the supported shapes
UnsupportedPayload ==
    /\ given.Payload.kind \notin {"nil", "Struct", "PtrStruct", "Array", "Slice", "Map"}
    /\ ~IsContent(given.Payload)
    /\ ~given.Payload.reader

\* C19: once a call with a URL has started, a non-nil payload of no supported
\* shape (an integer, a string) has made Send return an ArgumentInvalid error
\* with nil Content and without a transport call; the error names the
\* payload, unless normalizeOptions has refused the attachment before
C19_UnsupportedPayload ==
    (pc # "idle" /\ given.URL # "" /\ UnsupportedPayload) =>
        /\ Returned
        /\ Calls = 0
        /\ result.content.isNil
        /\ result.err.kind = "ArgumentInvalid"
        /\ result.err.what =
              IF options.Attempts > 1 /\ UnseekableAttachment THEN "Attachment"
              ELSE "payload"

\* Send has refused the payload 1234
C19_Witness ==
    /\ Returned
    /\ given.Payload = IntValue
    /\ Calls = 0
    /\ result.content.isNil
    /\ result.err = ArgumentInvalid("payload", "")

\* C20: the first request of a call whose payload is a Content or *Content
\* carries the Type of that Content when it has one; else the PayloadType of
\* the options when set; else the attachment type or application/octet-stream
C20_ContentTypePrecedence ==
    (Calls >= 1 /\ IsContent(given.Payload)) =>
        IF given.Payload.ctype # ""
        THEN ContentType(sent[1]) = given.Payload.ctype
        ELSE IF given.PayloadType # ""
        THEN ContentType(sent[1]) = given.PayloadType
        ELSE ContentType(sent[1]) \in {"application/octet-stream", given.AttachmentType}

----------------------------------------------------------------------------
(* Properties of the payload encodings, the method and the response *)

\* the payload is an array or a slice
SlicePayload == given.Payload.kind \in {"Array", "Slice"}

\* the payload is a []byte to send under application/octet-stream
RawBytes ==
    given.PayloadType = "application/octet-stream" /\ given.Payload.rtype = "[]uint8"

\* C21: a call with an array or slice payload never panics, and its first
\* request carries the bytes of the payload as they are when PayloadType is
\* application/octet-stream and the payload is a []byte, and its JSON
\* encoding in every other case (an array of bytes under
\* application/octet-stream may go either way)
C21_SliceVerbatimOrJSON ==
    SlicePayload =>
        /\ pc # "panic"
        /\ Calls >= 1 =>
              IF RawBytes THEN sent[1].Body = given.Payload.data
              ELSE IF given.PayloadType = "application/octet-stream"
                      /\ given.Payload.rtype = "[2]uint8"
              THEN sent[1].Body \in {given.Payload.data, given.Payload.json}
              ELSE /\ sent[1].Body = given.Payload.json
                   /\ ContentType(sent[1]) = "application/json"

\* buildRequestContent encodes the payload of the call as JSON
MarshaledPayload ==
    /\ ~IsContent(given.Payload) /\ ~given.Payload.reader
    /\ \/ given.Payload.kind \in {"Struct", "PtrStruct"}
       \/ SlicePayload /\ given.PayloadType # "application/octet-stream"
       \/ given.Payload.kind = "Map" /\ given.PayloadType = "application/json"

\* C22: once a call with a URL has started, a struct, pointer to struct,
\* slice or JSON-typed map payload that json.Marshal fails on has made Send
\* return nil Content and a JSONMarshalError, without a transport call and
\* without a sleep
C22_MarshalFailure ==
    (pc # "idle" /\ given.URL # "" /\ MarshaledPayload /\ ~given.Payload.marshals) =>
        /\ Returned
        /\ Calls = 0
        /\ waits = <<>>
        /\ result.content.isNil
        /\ result.err.kind = "JSONMarshalError"

\* a call of 3 attempts has failed on its struct payload
C22_Witness ==
    /\ Returned
    /\ given.Payload = Unmarshalable(StructValue)
    /\ given.Attempts = MaxAttempts
    /\ Calls = 0
    /\ result.content.isNil
    /\ result.err = JSONMarshalError

\* C23: a call with nil options has returned ArgumentMissing 'options', and a
\* call whose options have no URL ArgumentMissing 'URL'; the options are as
\* the caller passed them, no request was built, no stream was read and no
\* transport call was made
C23_MissingArguments ==
    (pc # "idle" /\ (given.isNil \/ given.URL = "")) =>
        /\ Returned
        /\ result.content.isNil
        /\ result.err = ArgumentMissing(IF given.isNil THEN "options" ELSE "URL")
        /\ options = given
        /\ req = NilRequest
        /\ \A s \in DOMAIN streamPos : streamPos[s] = 0
        /\ Calls = 0

\* a call without URL that leaves Context, Attempts and the other retry
\* parameters unset has returned, and they are still unset
C23_Witness ==
    /\ Returned
    /\ ~given.isNil /\ given.URL = ""
    /\ given.Payload = StructValue
    /\ options.Context = "nil" /\ options.Attempts = 0 /\ options.Timeout = 0
    /\ options.Method = "" /\ options.PayloadType = ""
    /\ result.err = ArgumentMissing("URL")
    /\ Calls = 0

\* C24: the requests of a call carry the Method of the caller if set; else
\* the first request is a POST when its content has a Length > 0 and a GET
\* otherwise (a bodyless GET for a call without payload and attachment); and
\* every retry carries the method of the first attempt
C24_Method ==
    Calls >= 1 =>
        /\ given.Method # "" => sent[1].Method = given.Method
        /\ given.Method = "" =>
              sent[1].Method = IF ContentLength(sent[1]) # "" THEN "POST" ELSE "GET"
        /\ (given.Method = "" /\ given.Payload.kind = "nil"
              /\ given.Attachment.kind = "nil") =>
              sent[1].Method = "GET" /\ sent[1].Body = <<>>
        /\ \A k \in 2..Calls : sent[k].Method = sent[1].Method

\* a call without method was retried: the first request was a POST with the
\* bytes of the stream and the second, whose body is empty, is a POST too
C24_Witness ==
    /\ Calls >= 2
    /\ given.Method = ""
    /\ given.Payload = SeekerStream("p")
    /\ sent[1].Method = "POST" /\ sent[1].Body = <<"p1", "p2">>
    /\ sent[2].Method = "POST" /\ sent[2].Body = <<>>

\* Send has returned the Content of a response with a status < 400
Succeeded ==
    /\ Returned
    /\ last.kind = "response" /\ last.status < 400 /\ last.readable

\* the MIME type of the file extension of the URL, "" when none is known
ExtensionType == IF given.URL = "http://host/image.png" THEN "image/png" ELSE ""

\* C25: the Type of the Content returned for a response with a status < 400
\* is image/jpeg for image/jpg; for an empty type or application/octet-stream
\* it is the Accept of the call (as normalized) unless that is '*', else the
\* MIME type of the file extension of the URL when one is known, else the
\* type received; any other type is returned as received
C25_ResponseType ==
    Succeeded =>
        LET received == server.contentType
            type     == result.content.Type
        IN  /\ received = "image/jpg" => type = "image/jpeg"
            /\ received \in {"", "application/octet-stream"} =>
                  type = IF options.Accept # "*" THEN options.Accept
                         ELSE IF ExtensionType # "" THEN ExtensionType
                         ELSE received
            /\ received \notin {"", "application/octet-stream", "image/jpg"} =>
                  type = received

\* an application/octet-stream response to a call that accepts '*' on a .png
\* URL was returned as image/png
C25_Witness ==
    /\ Succeeded
    /\ server.contentType = "application/octet-stream"
    /\ given.Accept = "*"
    /\ ExtensionType = "image/png"
    /\ result.content.Type = "image/png"

\* the chunks of the body of the last response, in the order sent
LastBody == <<"body of " \o FormatUint(last.status)>> \o server.rest

\* the Content carries the header and the cookies of the response
FromResponse(content) ==
    /\ "Server" \in DOMAIN content.Headers /\ content.Headers["Server"] = "httptest"
    /\ server.contentType # "" =>
          /\ "Content-Type" \in DOMAIN content.Headers
          /\ content.Headers["Content-Type"] = server.contentType
    /\ content.Cookies = <<"session=1">>

\* C26: when results is an io.Writer and the response has a status < 400, the
\* writer has received the chunks of the body in order, and Send has returned
\* no error and a Content without Data, with the number of bytes streamed as
\* Length and the type, header and cookies of the response
C26_WriterResults ==
    (Succeeded /\ results.kind = "Writer") =>
        /\ results.written = LastBody
        /\ result.err = ErrNil
        /\ ~result.content.isNil
        /\ result.content.Data = <<>>
        /\ result.content.Length = Len(LastBody)
        /\ server.contentType = "text/plain" => result.content.Type = "text/plain"
        /\ FromResponse(result.content)

\* a body of two chunks was streamed to the writer after an attempt that was
\* retried
C26_Witness ==
    /\ Succeeded
    /\ Calls = 2
    /\ results.kind = "Writer"
    /\ results.written = <<"body of 200", "more">>
    /\ result.content.Data = <<>>
    /\ result.content.Length = 2

C28_ProgressWriterClosed ==
    (Returned /\ given.ProgressWriter = "WriteCloser") => closes = 1

\* the Payload of the Options is the value the caller gave (a *Content
\* payload is the caller's object, whose Type Send sets)
SamePayload ==
    [options.Payload EXCEPT !.ctype = given.Payload.ctype] = given.Payload

----------------------------------------------------------------------------
(* ContentWithData and its list of options *)

\* a uint64 as four 16-bit limbs, the lowest first; Uint64(n) is the
\* conversion uint64(n) of an int or int64 n, which wraps a negative n around
\* to 2^64 + n
Limbs(n) == <<n % 65536, (n \div 65536) % 65536, 0, 0>>

Uint64(n) ==
    IF n >= 0 THEN Limbs(n)
    ELSE [i \in 1..4 |-> 65535 - Limbs(-n - 1)[i]]

\* an http.Header: the nil map, or a map of fields
NilHeader == [isNil |-> TRUE, fields |-> NoFields]

HeaderOf(fields) == [isNil |-> FALSE, fields |-> fields]

\* Header.Get: the empty string for a field that is not there, a nil map
\* included
Get(header, key) ==
    IF key \in DOMAIN header.fields THEN header.fields[key] ELSE ""

\* the values passed as options: type is the dynamic type, n the value of an
\* integer, s that of a string or the text of a URL, h that of an http.Header
NoOption == [type |-> "nil", n |-> 0, s |-> "", h |-> NilHeader]

IntegerOption(type, n) == [NoOption EXCEPT !.type = type, !.n = n]

StringOption(s) == [NoOption EXCEPT !.type = "string", !.s = s]

URLOption(s) == [NoOption EXCEPT !.type = "*url.URL", !.s = s]

HeaderOption(h) == [NoOption EXCEPT !.type = "http.Header", !.h = h]

OtherOption(type) == [NoOption EXCEPT !.type = type]

\* content := &Content{}; content.Data = data
NewContent(data) ==
    [isNil |-> FALSE, Type |-> "", URL |-> "", Length |-> Uint64(0),
     Data |-> data, Headers |-> NilHeader]

\* one turn of the loop over the options: the type switch
applyOption(content, option) ==
    CASE option.type = "*url.URL" -> [content EXCEPT !.URL = option.s]
      [] option.type \in {"int64", "uint64", "uint", "int"} ->
            [content EXCEPT !.Length = Uint64(option.n)]
      [] option.type = "string" -> [content EXCEPT !.Type = option.s]
      [] option.type = "http.Header" -> [content EXCEPT !.Headers = option.h]
      [] OTHER -> content

RECURSIVE applyOptions(_, _)
applyOptions(content, opts) ==
    IF opts = <<>> THEN content
    ELSE applyOptions(applyOption(content, Head(opts)), Tail(opts))

\* a faulty variant of gunzip: what was read before the stream broke is kept
gunzipPartly(data) ==
    IF data # <<>> /\ Head(data) = "gzip"
    THEN [ok |-> TRUE, data |-> SelectSeq(Tail(data), LAMBDA b : b # "!")]
    ELSE [ok |-> FALSE, data |-> data]

\* gzip.NewReader and io.ReadAll: data that starts with the gzip magic is the
\* compressed form of what follows it, unless the stream is broken ("!"):
\* gzip.NewReader refuses data without the magic, io.ReadAll fails on a
\* broken stream
gunzip(data) ==
    IF data # <<>> /\ Head(data) = "gzip"
       /\ \A i \in 1..Len(data) : data[i] # "!"
    THEN [ok |-> TRUE, data |-> Tail(data)]
    ELSE [ok |-> FALSE, data |-> data]

\* ContentWithData(data, options...)
ContentWithDataOptions(data, opts) ==
    LET c1 == applyOptions(NewContent(data), opts)
        c2 == IF Get(c1.Headers, "Content-Encoding") = "gzip" /\ gunzip(c1.Data).ok
              THEN [c1 EXCEPT !.Data = gunzip(c1.Data).data,
                              !.Length = Uint64(Len(gunzip(c1.Data).data))]
              ELSE c1
        c3 == IF c2.Length = Uint64(0)
              THEN [c2 EXCEPT !.Length = Uint64(Len(c2.Data))] ELSE c2
    IN  IF c3.Headers.isNil THEN [c3 EXCEPT !.Headers = HeaderOf(NoFields)] ELSE c3

\* the call ContentWithData(args.data, args.options...)
ContentWithDataCall ==
    /\ built.isNil /\ returned = NoReturn
    /\ args # NoArguments /\ args.reader = "none"
    /\ built' = ContentWithDataOptions(args.data, args.options)
    /\ UNCHANGED <<given, server, results, options, ctx, clock, streamPos, pc,
                   attempt, req, sent, waits, outcomes, last, openBodies, closes,
                   result, args, returned>>

\* the call ContentFromReader(reader, args.options...) on a reader that gives
\* args.data, or fails (args.reader = "fails")
ContentFromReaderCall ==
    /\ built.isNil /\ returned = NoReturn
    /\ args.reader \in {"reads", "fails"}
    /\ IF args.reader = "fails"
       THEN /\ returned' = [NoReturn EXCEPT !.op = "ContentFromReader",
                                            !.err = ReadFailure]
            /\ UNCHANGED built
       ELSE /\ built' = ContentWithDataOptions(args.data, args.options)
            /\ UNCHANGED returned
    /\ UNCHANGED <<given, server, results, options, ctx, clock, streamPos, pc,
                   attempt, req, sent, waits, outcomes, last, openBodies, closes,
                   result, args>>

----------------------------------------------------------------------------
(* Decrypt and Encrypt *)

\* const ( NONE CryptoAlgorithm = iota; AESCTR )
NONE == 0

AESCTR == 1

\* errors.InvalidType.With(what)
InvalidType(what) == [kind |-> "InvalidType", what |-> what, value |-> "", code |-> 0]

\* the run-time panic of an index that is out of range
IndexOutOfRangePanic ==
    [kind |-> "panic", what |-> "index out of range", value |-> "", code |-> 0]

\* CryptoAlgorithm.String: the test is int(algorithm) > len(algorithms), and
\* algorithms[algorithm] indexes an array of len(algorithms) names from 0
String(algorithm) ==
    LET algorithms == <<"NONE", "AESCTR">>
    IN  IF algorithm > Len(algorithms)
        THEN [panics |-> FALSE, text |-> "Unknown " \o FormatUint(algorithm)]
        ELSE IF algorithm + 1 \in DOMAIN algorithms
             THEN [panics |-> FALSE, text |-> algorithms[algorithm + 1]]
             ELSE [panics |-> TRUE, text |-> ""]

\* the key stream of AES-CTR XORed on a byte: applying it twice gives the byte
XORKeyStream(b) ==
    LET pairs == { <<"a", "A">>, <<"b", "B">>, <<"x", "X">>, <<"y", "Y">>,
                   <<"z", "Z">>, <<"gzip", "GZIP">>, <<"!", "?">> }
    IN  IF \E p \in pairs : p[1] = b THEN (CHOOSE p \in pairs : p[1] = b)[2]
        ELSE (CHOOSE p \in pairs : p[2] = b)[1]

\* aes.NewCipher takes keys of 16, 24 and 32 bytes; key is the length of the key
\* DecryptWithAESCTR and EncryptWithAESCTR are the same but for their names
WithAESCTR(content, key) ==
    IF key \notin {16, 24, 32}
    THEN [content |-> NilContent, err |-> ArgumentInvalid("key", FormatUint(key))]
    ELSE [content |-> [content EXCEPT
                         !.Data = [i \in 1..Len(content.Data) |->
                                      XORKeyStream(content.Data[i])]],
          err |-> ErrNil]

\* Content.Decrypt(algorithm, key); Content.Encrypt is the same switch
Decrypt(content, algorithm, key) ==
    CASE algorithm = NONE -> [content |-> content, err |-> ErrNil]
      [] algorithm = AESCTR -> WithAESCTR(content, key)
      [] OTHER ->
            IF String(algorithm).panics
            THEN [content |-> NilContent, err |-> IndexOutOfRangePanic]
            ELSE [content |-> NilContent, err |-> InvalidType(String(algorithm).text)]

Encrypt(content, algorithm, key) == Decrypt(content, algorithm, key)

\* the values of CryptoAlgorithm and the lengths of key a call is made with
Algorithms == {NONE, AESCTR, 2, 3, 10}

Keys == {5, 32}

Cipher(op, content, algorithm, key) ==
    IF op = "Decrypt" THEN Decrypt(content, algorithm, key)
    ELSE Encrypt(content, algorithm, key)

CipherCall(op) ==
    /\ ~built.isNil /\ returned = NoReturn
    /\ \E algorithm \in Algorithms, key \in Keys :
          returned' = [NoReturn EXCEPT
                          !.op = op, !.algorithm = algorithm, !.key = key,
                          !.content = Cipher(op, built, algorithm, key).content,
                          !.err = Cipher(op, built, algorithm, key).err]
    /\ UNCHANGED <<given, server, results, options, ctx, clock, streamPos, pc,
                   attempt, req, sent, waits, outcomes, last, openBodies, closes,
                   result, args, built>>

\* built.Decrypt(algorithm, key)
DecryptCall == CipherCall("Decrypt")

\* built.Encrypt(algorithm, key)
EncryptCall == CipherCall("Encrypt")

----------------------------------------------------------------------------
(* LogString *)

\* the run-time panic of a slice expression whose bound is above the capacity
SliceBoundsPanic ==
    [kind |-> "panic", what |-> "slice bounds out of range", value |-> "", code |-> 0]

\* int(math.Min(float64(maxSize), float64(length))) for a maxSize that is an
\* int of the model and a length that is a uint64
MinOf(maxSize, length) ==
    IF length[3] = 0 /\ length[4] = 0 /\ length[2] < 32768
       /\ length[1] + 65536 * length[2] < maxSize
    THEN length[1] + 65536 * length[2]
    ELSE maxSize

\* strings.HasPrefix(content.Type, ...) for the types logged as text
LoggedAsText(type) ==
    type \in {"application/json", "application/xml", "text/plain", "text/csv"}

\* string(bytes) or hex.EncodeToString(bytes)
Encoded(type, bytes) ==
    IF LoggedAsText(type) THEN bytes
    ELSE [i \in 1..Len(bytes) |-> "hex:" \o bytes[i]]

\* content.LogString(maxSize) for a Data of the given capacity: the part
\* that follows ": " (text), or the panic of content.Data[:n]; the bytes of
\* the backing array beyond len(Data) are "beyond"
LogString(content, maxSize, capacity) ==
    LET n == MinOf(maxSize, content.Length)
    IN  IF maxSize > 0 /\ Len(content.Data) > 0
        THEN IF n > capacity
             THEN [text |-> <<>>, err |-> SliceBoundsPanic]
             ELSE [text |-> Encoded(content.Type,
                                    [i \in 1..n |-> IF i <= Len(content.Data)
                                                    THEN content.Data[i] ELSE "beyond"]),
                   err |-> ErrNil]
        ELSE [text |-> <<>>, err |-> ErrNil]

\* the sizes LogString is called with
MaxSizes == {0, 1, 2048}

\* the capacities the Data of a Content may have: its length (a slice cut to
\* measure) or more (the buffer of io.ReadAll)
Capacities(data) == {Len(data), Len(data) + 2}

\* built.LogString(maxSize)
LogStringCall ==
    /\ ~built.isNil /\ returned = NoReturn
    /\ \E maxSize \in MaxSizes, capacity \in Capacities(built.Data) :
          returned' = [NoReturn EXCEPT
                          !.op = "LogString", !.maxSize = maxSize,
                          !.text = LogString(built, maxSize, capacity).text,
                          !.err = LogString(built, maxSize, capacity).err]
    /\ UNCHANGED <<given, server, results, options, ctx, clock, streamPos, pc,
                   attempt, req, sent, waits, outcomes, last, openBodies, closes,
                   result, args, built>>

GzipHeader == HeaderOf([k \in {"Content-Encoding"} |-> "gzip"])

\* the options a call is made with: lengths of the four integer types, below,
\* at and above zero, a type, a URL, headers, and values of no recognized type
OptionChoices ==
    { IntegerOption(t, n) : t \in {"int", "int64"}, n \in {-1, 0, 3} }
    \cup { IntegerOption(t, n) : t \in {"uint", "uint64"}, n \in {0, 3} }
    \cup { StringOption("text/plain"), URLOption("http://host/path"),
           HeaderOption(NilHeader), HeaderOption(HeaderOf(NoFields)),
           HeaderOption(GzipHeader),
           NoOption, OtherOption("float64") }

DataChoices ==
    { <<>>, <<"a", "b">>, <<"gzip", "x", "y", "z">>, <<"gzip", "x", "!">> }

ContentArguments ==
    { [data |-> d, options |-> o, reader |-> r] :
        d \in DataChoices,
        o \in {<<>>} \cup { <<a>> : a \in OptionChoices }
              \cup { <<a, b>> : a \in OptionChoices, b \in OptionChoices },
        r \in {"none", "reads", "fails"} }
      \ {NoArguments}

InitContent ==
    /\ args \in ContentArguments
    /\ built = NilContent
    /\ returned = NoReturn
    /\ given = BaseOptions /\ server = QuietServer /\ results = NilResults
    /\ options = given
    /\ ctx = "live"
    /\ clock = 0
    /\ streamPos = [p |-> 0, a |-> 0, e |-> 0]
    /\ pc = "idle"
    /\ attempt = 0
    /\ req = NilRequest
    /\ sent = <<>>
    /\ waits = <<>>
    /\ outcomes = <<>>
    /\ last = NoOutcome
    /\ openBodies = 0
    /\ closes = 0
    /\ result = [content |-> NilContent, err |-> ErrNil]

NextContent ==
    \/ ContentWithDataCall
    \/ ContentFromReaderCall
    \/ DecryptCall
    \/ EncryptCall
    \/ LogStringCall

SpecContent == InitContent /\ [][NextContent]_vars

----------------------------------------------------------------------------
(* Properties of ContentWithData *)

IsLength(option) == option.type \in {"int", "uint", "int64", "uint64"}

LengthAboveZero ==
    \E i \in 1..Len(args.options) :
        IsLength(args.options[i]) /\ args.options[i].n > 0

\* C30: the Content that ContentWithData returns has Headers that is not nil,
\* and its Length is the number of bytes of its Data whenever no length option
\* above zero was passed, a length option at or below zero being ignored like
\* an option of a type that is not recognized
C30_LengthOfData ==
    ~built.isNil =>
        /\ ~built.Headers.isNil
        /\ ~LengthAboveZero => built.Length = Uint64(Len(built.Data))

\* the last of the options of a call whose type is one of types, NoOption if none
LastOf(types) ==
    LET found == {i \in 1..Len(args.options) : args.options[i].type \in types}
    IN  IF found = {} THEN NoOption
        ELSE args.options[CHOOSE i \in found : \A j \in found : j <= i]

DeclaresGzip == Get(LastOf({"http.Header"}).h, "Content-Encoding") = "gzip"

DeclaredLength == LastOf({"int", "uint", "int64", "uint64"}).n

ValidGzip(data) ==
    /\ data # <<>> /\ Head(data) = "gzip"
    /\ \A i \in 1..Len(data) : data[i] # "!"

\* C31: under headers that declare Content-Encoding: gzip, a body that is
\* valid gzip gives the decompressed bytes as Data and their number as Length;
\* a body that is not gives no error, the Data as supplied and the Length as
\* declared (the number of bytes supplied when none is declared)
C31_Gzip ==
    (DeclaresGzip /\ (~built.isNil \/ args.reader = "reads")) =>
        /\ returned.op # "ContentFromReader"
        /\ ~built.isNil =>
              IF ValidGzip(args.data)
              THEN /\ built.Data = Tail(args.data)
                   /\ built.Length = Uint64(Len(args.data) - 1)
              ELSE /\ built.Data = args.data
                   /\ built.Length = IF DeclaredLength = 0
                                     THEN Uint64(Len(args.data))
                                     ELSE Uint64(DeclaredLength)

\* ContentFromReader has read a gzip stream that breaks off, under headers
\* that declare gzip and a length: the bytes and the length are as supplied
C31_Witness ==
    /\ ~built.isNil /\ DeclaresGzip /\ args.reader = "reads"
    /\ args.data = <<"gzip", "x", "!">> /\ DeclaredLength = 3
    /\ built.Data = args.data /\ built.Length = Uint64(3)

\* C32: Decrypt and Encrypt with an algorithm that is neither NONE nor AESCTR
\* return a nil Content and an InvalidType error that names the algorithm,
\* and do not panic
C32_InvalidAlgorithm ==
    (returned.op \in {"Decrypt", "Encrypt"}
     /\ returned.algorithm \notin {NONE, AESCTR}) =>
        /\ returned.content.isNil
        /\ returned.err = InvalidType("Unknown " \o FormatUint(returned.algorithm))

----------------------------------------------------------------------------
(* Properties of the loop of Send *)

\* C33: a rebuild of the request that fails before a retry is not ignored:
\* no iteration starts with a nil request, and Send does not panic after a
\* wait but returns an error
C33_RebuildFailureReported ==
    /\ pc = "loop" => ~req.isNil
    /\ pc = "panic" => waits = <<>>

\* C34: a call of Send ends by returning, a Content or an error, and never
\* otherwise, having made at most Attempts calls of the transport and at most
\* Attempts - 1 waits
C34_Terminates ==
    /\ pc # "panic"
    /\ (pc # "idle" /\ result.err.kind # "ArgumentMissing") =>
          /\ Calls <= options.Attempts
          /\ Len(waits) <= options.Attempts - 1
    /\ pc = "loop" => ENABLED Next

\* C35: the "Giving up after N attempts" error is returned only when the
\* last of the Attempts transport calls ended in a transport failure of the
\* transient kind: not after a response, and not after fewer calls
C35_GivingUpOnlyAfterLastFailure ==
    (Returned /\ result.err.kind = "HTTPStatusRequestTimeout") =>
        /\ Calls = options.Attempts
        /\ result.err = GivingUp(Calls)
        /\ last.kind = "error"
        /\ LastClass = "transient error"

\* two retryable statuses were waited out and the third and last attempt
\* timed out: Send gave up
C35_Witness ==
    /\ Returned /\ result.err = GivingUp(3)
    /\ Calls = 3 /\ Len(waits) = 2
    /\ outcomes[1] = "listed status >= 400" /\ outcomes[2] = "listed status >= 400"
    /\ last.kind = "error"

\* C36: the body of a response that is retried is closed before the next
\* attempt is issued: no body is open at the top of the loop and at most one
\* is open at any time
C36_OneOpenBody ==
    /\ openBodies <= 1
    /\ pc = "loop" => openBodies = 0

\* C37: a wait of the exponential backoff lasts at least InterAttemptDelay,
\* is above zero, and is no shorter than a wait of the same call computed at
\* a smaller elapsed time
C37_BackoffAtLeastDelay ==
    \A i \in 1..Len(waits) :
        Backoff(waits[i]) =>
            /\ waits[i].duration >= options.InterAttemptDelay
            /\ waits[i].duration > 0
            /\ \A j \in 1..Len(waits) :
                  (Backoff(waits[j]) /\ waits[j].elapsed >= waits[i].elapsed) =>
                      waits[j].duration >= waits[i].duration

----------------------------------------------------------------------------
(* Calls that use an Options value again *)

\* normalizeOptions(options, results) at the start of a call of Send with the
\* Options value of the call before
normalizeOptionsCall ==
    /\ pc \in {"idle", "done"}
    /\ \A k \in DOMAIN options.RawQuery : Len(options.RawQuery[k]) < MaxCopies
    /\ \E uuid \in UUIDs :
          options' = normalizeOptions(options, results, uuid).options
    /\ pc' = "done"
    /\ UNCHANGED <<given, server, results, ctx, clock, streamPos, attempt, req,
                   sent, waits, outcomes, last, openBodies, closes, result,
                   args, built, returned>>

\* Options values with body log sizes below, at and above zero, with and
\* without Parameters, to a URL with and without a query string
ReusedOptions ==
    { [BaseOptions EXCEPT !.RequestBodyLogSize = q, !.ResponseBodyLogSize = s,
                          !.Parameters = p, !.RawQuery = u, !.Attempts = a,
                          !.RequestID = id] :
        q \in {0 - 1, 0, 100}, s \in {0 - 1, 0},
        p \in {NoFields, [k \in {"page"} |-> "2"]},
        u \in {NoValues, [k \in {"page"} |-> <<"1">>], [k \in {"q"} |-> <<"go">>]},
        a \in {0, 2}, id \in {"", "caller-id"} }

InitReuse ==
    /\ given \in ReusedOptions
    /\ options = given
    /\ server = QuietServer /\ results = NilResults
    /\ ctx = "live"
    /\ clock = 0
    /\ streamPos = [p |-> 0, a |-> 0, e |-> 0]
    /\ pc = "idle"
    /\ attempt = 0
    /\ req = NilRequest
    /\ sent = <<>>
    /\ waits = <<>>
    /\ outcomes = <<>>
    /\ last = NoOutcome
    /\ openBodies = 0
    /\ closes = 0
    /\ result = [content |-> NilContent, err |-> ErrNil]
    /\ args = NoArguments
    /\ built = NilContent
    /\ returned = NoReturn

NextReuse == normalizeOptionsCall

SpecReuse == InitReuse /\ [][NextReuse]_vars

\* C38: normalizeOptions changes no field of an Options value that went
\* through it in an earlier call: a body log size disabled by a negative
\* value stays disabled and the query string gains no copy of Parameters
C38_Idempotent ==
    [][pc = "done" => options' = options]_vars

\* C39: the Content that the caller passes by pointer as Payload has, at any
\* time of the call and after it, the Type and the Data it had before,
\* whatever the PayloadType of the options
C39_ContentPointerUntouched ==
    given.Payload.rtype = "*request.Content" =>
        /\ options.Payload.rtype = "*request.Content"
        /\ options.Payload.ctype = given.Payload.ctype
        /\ options.Payload.data = given.Payload.data

\* C40: LogString returns normally for every Content and every maxSize, a
\* Content whose Length is above len(Data) included, and its preview holds
\* bytes of Data only, no more of them than maxSize
C40_LogStringWithinData ==
    returned.op = "LogString" =>
        /\ returned.err = ErrNil
        /\ Len(returned.text) <= Len(built.Data)
        /\ Len(returned.text) <= returned.maxSize
        /\ returned.text =
              Encoded(built.Type, SubSeq(built.Data, 1, Len(returned.text)))

====
